---- MODULE Spec2Model ----
(***************************************************************************)
(* Model of the Hyperliquid copy trader in live mode                       *)
(* (settings.simulated_trading = False): main() start-up, the wallet       *)
(* monitor's frame handling, the callbacks of main.py with their awaits as *)
(* separate steps, the executor's order submission and the pause commands. *)
(*                                                                         *)
(* Units.  Sizes are counted in lots (one lot = 10^-szDecimals coin), so   *)
(* positions on the exchange are integers; prices are USD per lot.  Sizes  *)
(* computed by the bot are floats: they are kept as exact fractions        *)
(* [n, d]; round(x, sz_decimals) is rounding to a whole number of lots.    *)
(* Leverages are kept in tenths (25 = 2.5x).                               *)
(*                                                                         *)
(* Specifications.  Spec: start-up and monitoring without limits           *)
(* configured; SpecLimits: the same under the configurations with limits;  *)
(* SpecStream: monitoring from a successful start-up, with the frames of a *)
(* reversed position, a cancelled order and a close next to an open;       *)
(* SpecExecutor: the executor's operations called one by one, in dry-run   *)
(* and in live mode; SpecStop: monitoring with a stop request (fair).      *)
(***************************************************************************)
EXTENDS Integers, Sequences, FiniteSets, TLC

\* ------------------------------------------------------------------ bounds
MaxFrames == 1
MaxOrders == 2

\* ------------------------------------------------- inputs of the model
Symbols == {"BTC", "ATOM", "DOGE"}
SymOrder == <<"BTC", "ATOM", "DOGE">>
\* sizes in lots of the target's trades and of its orders; prices in USD per lot
TargetSizes == {8, 30}
OrderSizes == {30, 60}
Prices == {2}
MidPrices == {2, 3}
\* the leverage the target trades a symbol with, in tenths: BTC 2.5x long and
\* 60x short, ATOM 12x long and 5x short, DOGE 3x
TargetLeverage(s, long) ==
    IF s = "BTC" THEN (IF long THEN 25 ELSE 600)
    ELSE IF s = "ATOM" THEN (IF long THEN 120 ELSE 50) ELSE 30
\* account values in USD, and the equity cap of the configurations that set one
Balances == [target |-> 2000, follower |-> 1000]
EquityCaps == {1000}

\* ------------------------------------------------ configuration (settings)
simulated_account_balance == 1000
min_entry_quality_pct == 5
MIN_ORDER_VALUE == 10
copy_open_positions == TRUE
copy_existing_orders == TRUE
auto_adjust_size == TRUE
blocked_assets == {"DOGE"}
DefaultTargetBalance == 1000000

\* ------------------------------------------------------------- arithmetic
Abs(x) == IF x < 0 THEN -x ELSE x

Min(a, b) == IF a <= b THEN a ELSE b

Max(a, b) == IF a >= b THEN a ELSE b

RECURSIVE SumAbs(_, _)
\* the sum of |f[k]| over the keys of the sequence ks
SumAbs(f, ks) == IF ks = <<>> THEN 0 ELSE Abs(f[Head(ks)]) + SumAbs(f, Tail(ks))

RECURSIVE GCD(_, _)
GCD(a, b) == IF b = 0 THEN a ELSE GCD(b, a % b)

\* the fraction n/d (d > 0) in lowest terms
Rat(n, d) ==
    LET g == GCD(Abs(n), d)
    IN  IF n = 0 THEN [n |-> 0, d |-> 1] ELSE [n |-> n \div g, d |-> d \div g]

RInt(k) == [n |-> k, d |-> 1]

RLess(a, b) == a.n * b.d < b.n * a.d

RLeq(a, b) == a.n * b.d <= b.n * a.d

\* Python round(): to the nearest integer, ties to the even one
RoundHalfEven(n, d) ==
    LET q == n \div d
        r == n % d
    IN  IF 2 * r < d THEN q
        ELSE IF 2 * r > d THEN q + 1
        ELSE IF q % 2 = 0 THEN q ELSE q + 1

\* ------------------------------------------------------------------ state
VARIABLES
    settings,             \* the configuration that varies: use_limit_orders and the limits
    tgt,                  \* the target account on the exchange
    fol,                  \* the follower account on the exchange
    mainPc,               \* position of main()
    mainIdx,              \* index of main()'s start-up loops
    your_actual_balance,  \* main.your_actual_balance
    portfolio_ratio,      \* settings.sizing.portfolio_ratio (auto_ratio once computed)
    current_state,        \* WalletMonitor.current_state
    last_positions,       \* WalletMonitor.last_positions
    last_orders,          \* WalletMonitor.last_orders
    frame,                \* the stream frame being handled
    monPc,                \* position of WalletMonitor._handle_update in the frame
    tasks,                \* callbacks / executor calls in flight (coroutines)
    is_paused,            \* main.is_paused
    nFrames,              \* frames delivered so far (redeliveries not counted)
    evCount,              \* callbacks invoked so far for the frame
    lastDisp,             \* per symbol: event number of the frame's last submission
    obs,                  \* what the last step showed: submission, leverage update, finished callback
    call,                 \* the executor operation called on its own, and its gateway traffic
    stop,                 \* handle_stop: where it stands
    fmt                   \* the executor's formatter called on its own: input and string

vars == <<settings, tgt, fol, mainPc, mainIdx, your_actual_balance, portfolio_ratio,
          current_state, last_positions, last_orders, frame, monPc, tasks,
          is_paused, nFrames, evCount, lastDisp, obs, call, stop, fmt>>

\* ------------------------------------------------- hyperliquid/client.py
NoPos == [szi |-> 0, entryPx |-> 0, lev |-> 10]

NoState == [some |-> FALSE, positions |-> <<>>, orders |-> <<>>, balance |-> 0]

\* the Position objects get_user_state builds from assetPositions
ParsePositions(acct) ==
    LET held == SelectSeq(SymOrder, LAMBDA s : acct.pos[s].szi # 0)
    IN  [i \in 1..Len(held) |->
            [symbol      |-> held[i],
             side        |-> IF acct.pos[held[i]].szi > 0 THEN "LONG" ELSE "SHORT",
             size        |-> Abs(acct.pos[held[i]].szi),
             entry_price |-> acct.pos[held[i]].entryPx,
             leverage    |-> acct.pos[held[i]].lev]]

\* the Order objects get_user_state builds from openOrders
ParseOrders(acct) ==
    [i \in 1..Len(acct.orders) |->
        [order_id      |-> acct.orders[i].oid,
         symbol        |-> acct.orders[i].coin,
         side          |-> IF acct.orders[i].side = "B" THEN "BUY" ELSE "SELL",
         size          |-> acct.orders[i].sz,
         price         |-> acct.orders[i].limitPx,
         trigger_price |-> acct.orders[i].triggerPx]]

\* HyperliquidClient.get_user_state: the UserState, or None when the request fails
get_user_state(acct, ok) ==
    IF ok
    THEN [some |-> TRUE, positions |-> ParsePositions(acct),
          orders |-> ParseOrders(acct), balance |-> acct.balance]
    ELSE NoState

\* UserState.total_equity
total_equity(state) == state.balance

\* the first element of a list that satisfies the test, as a possibly empty list
FindPosition(positions, symbol) == SelectSeq(positions, LAMBDA p : p.symbol = symbol)

FindOrder(orders, order_id) == SelectSeq(orders, LAMBDA o : o.order_id = order_id)

\* ------------------------------------------------------------ main.py
MAX_LEVERAGE_LIMITS == [s \in {"BTC", "ETH", "SOL", "DOGE", "ATOM"} |->
    CASE s = "BTC" -> 50 [] s = "ETH" -> 50 [] s = "SOL" -> 20
      [] s = "DOGE" -> 20 [] s = "ATOM" -> 10]

get_max_leverage_for_asset(symbol) ==
    IF symbol \in DOMAIN MAX_LEVERAGE_LIMITS THEN MAX_LEVERAGE_LIMITS[symbol] ELSE 10

\* target_leverage in tenths
calculate_matching_leverage(target_leverage, symbol) ==
    LET max_leverage == get_max_leverage_for_asset(symbol)
        rounded_leverage == Max(1, RoundHalfEven(target_leverage, 10))
    IN  Min(rounded_leverage, max_leverage)

\* settings.sizing and settings.copy_rules: the limits of the configuration
max_position_size == settings.max_position_size
max_total_exposure == settings.max_total_exposure
max_open_trades == settings.max_open_trades
max_open_orders == settings.max_open_orders

\* ------------------------------------------- copy_engine/position_sizer.py
\* PositionSizer._calculate_proportional_size: (size * entry * ratio) / entry
calculate_proportional_size(size, entry_price, target_wallet_balance, your_wallet_balance) ==
    LET wallet_ratio == IF target_wallet_balance > 0
                        THEN Rat(your_wallet_balance, target_wallet_balance)
                        ELSE portfolio_ratio
    IN  IF entry_price > 0
        THEN Rat(size * entry_price * wallet_ratio.n, wallet_ratio.d * entry_price)
        ELSE RInt(0)

\* PositionSizer.calculate_size in proportional mode, your_current_exposure = 0;
\* a result of 0 stands for None as well (both are skipped by "not our_size")
calculate_size(size, entry_price, target_wallet_balance, your_wallet_balance) ==
    LET prop   == calculate_proportional_size(size, entry_price,
                        target_wallet_balance, your_wallet_balance)
        capped == IF prop.n > 0 /\ RLess(RInt(max_position_size), prop)
                  THEN RInt(max_position_size) ELSE prop
    IN  IF capped.n > 0 /\ RLess(RInt(max_total_exposure), capped)
        THEN RInt(0) ELSE capped

\* PositionSizer.should_copy_position
should_copy_position(target_entry_price, current_market_price, max_entry_deviation_pct) ==
    IF target_entry_price <= 0 THEN FALSE
    ELSE ~ (Abs(current_market_price - target_entry_price) * 100
                > max_entry_deviation_pct * target_entry_price)

\* ------------------------------------------------ copy_engine/executor.py
\* TradeExecutor._format_size: the size on the wire, in lots of an asset that
\* has size decimals (format_size_string is the string it writes)
format_size(size) == RoundHalfEven(size.n, size.d)

\* TradeExecutor.get_my_positions: symbol -> size of the follower's positions
get_my_positions(acct) ==
    [s \in {x \in Symbols : acct.pos[x] # 0} |->
        [size |-> Abs(acct.pos[s]), side |-> IF acct.pos[s] > 0 THEN "LONG" ELSE "SHORT"]]

\* side == OrderSide.BUY in the executor
IsBuy(side) == side = "BUY"

RECURSIVE Pow10(_)
Pow10(k) == IF k = 0 THEN 1 ELSE 10 * Pow10(k - 1)

RECURSIVE Digits(_)
\* the number of decimal digits of the integer part q (0 for q = 0)
Digits(q) == IF q = 0 THEN 0 ELSE 1 + Digits(q \div 10)

\* f"{x:.5g}" for x >= 1: x rounded to 5 significant figures.  An integer part
\* of g digits leaves 5 - g decimals; with more than 5 digits the rounding is
\* to a multiple of 10^(g - 5)
format_5g(x) ==
    LET g == Digits(x.n \div x.d)
    IN  IF g <= 5
        THEN Rat(RoundHalfEven(x.n * Pow10(5 - g), x.d), Pow10(5 - g))
        ELSE RInt(RoundHalfEven(x.n, x.d * Pow10(g - 5)) * Pow10(g - 5))

\* a variant that applies the default slippage of 3% whatever is asked for
calculate_slippage_price_default(price, is_buy, slippage) ==
    format_5g(Rat(price * (IF is_buy THEN 103 ELSE 97), 100))

\* TradeExecutor._calculate_slippage_price, slippage in percent
calculate_slippage_price(price, is_buy, slippage) ==
    format_5g(Rat(price * (IF is_buy THEN 100 + slippage ELSE 100 - slippage), 100))

\* the slippage execute_trigger_order asks for, in percent
TriggerSlippage == 5

\* ------------------------------------------------------------ observations
NoObs == [type |-> "none"]

NoIntent == [kind |-> "none"]

NoFrame == [hasF |-> FALSE, fills |-> <<>>, hasP |-> FALSE, positions |-> <<>>,
            hasO |-> FALSE, orders |-> <<>>, redelivery |-> FALSE, ev0 |-> 0]

Idle == [phase |-> "idle", i |-> 0]

RemoveAt(seq, i) == [j \in 1..(Len(seq) - 1) |-> IF j < i THEN seq[j] ELSE seq[j + 1]]

CacheSize(cache, symbol) == IF symbol \in DOMAIN cache THEN cache[symbol].size ELSE 0

\* no answer of the exchange yet
NoAnswer == [http |-> -1, status |-> "", order |-> ""]

\* no executor operation is in progress; dry is the executor's dry_run flag.
\* The live executor has been constructed with the follower's key and address:
\* "0xabcd" is the address as configured, "0xAbCd" the address eth_account
\* derives from the key (checksummed, so in mixed case), "None" is
\* self.account = None.
NoCall(dry) ==
    [dry_run |-> dry, op |-> "none", leverage |-> 1, pc |-> "idle", calls |-> 0,
     attempts |-> 0, signed |-> 0, posted |-> 0, answer |-> NoAnswer,
     lev_answer |-> NoAnswer, lev_result |-> "", result |-> "",
     private_key |-> IF dry THEN "" ELSE "0xkey", wallet_address |-> "0xabcd",
     account |-> IF dry THEN "None" ELSE "0xAbCd"]

\* no stop has been requested
NotStopping ==
    [pc |-> "running", close_positions |-> FALSE, idx |-> 0, monitor_stopped |-> FALSE,
     exit_code |-> -1]

\* a callback returns without having submitted an order
Finish(i, reason) ==
    /\ tasks' = RemoveAt(tasks, i)
    /\ obs' = [type |-> "done", ev |-> tasks[i].ev, origin |-> tasks[i].origin,
               sym |-> tasks[i].sym, d |-> tasks[i].d, reason |-> reason,
               paused |-> is_paused, folHeld |-> Abs(fol.pos[tasks[i].sym])]

\* ------------------------------------------------------------------- Init
\* the target account when the bot starts: a BTC long of 45 lots at 2.5x and a
\* resting limit order to sell 30 lots
InitTarget ==
    [pos |-> [s \in Symbols |-> IF s = "BTC"
                                THEN [szi |-> 45, entryPx |-> 2, lev |-> 25] ELSE NoPos],
     orders |-> << [oid |-> 1, coin |-> "BTC", side |-> "A", sz |-> 30, limitPx |-> 2,
                    triggerPx |-> 0, isTrigger |-> FALSE, triggerCondition |-> "",
                    reduceOnly |-> FALSE] >>,
     balance |-> Balances.target]

\* the configurations: market orders, market orders under an equity cap, limit orders
\* the defaults of SizingConfig and CopyRulesConfig (-1 stands for None)
DefaultSettings ==
    [use_limit_orders |-> FALSE, max_account_equity |-> -1,
     max_open_trades |-> -1, max_open_orders |-> -1,
     max_position_size |-> 1000, max_total_exposure |-> 5000]

\* a configuration with every count and size limit set
LimitedSettings ==
    [DefaultSettings EXCEPT !.max_open_trades = 1, !.max_open_orders = 1,
                            !.max_position_size = 12, !.max_total_exposure = 30]

\* the configurations without limits: market orders, limit orders
Settings ==
    { DefaultSettings,
      [DefaultSettings EXCEPT !.use_limit_orders = TRUE] }

\* the configurations with limits: counts and sizes, or an equity cap
LimitSettings ==
    { LimitedSettings }
    \cup { [DefaultSettings EXCEPT !.max_account_equity = c] : c \in EquityCaps }

\* the state in which main() starts under one of the configurations
StartOf(configurations) ==
    /\ settings \in configurations
    /\ tgt = InitTarget
    /\ fol = [pos |-> [s \in Symbols |-> 0], balance |-> Balances.follower, orders |-> 0, fee |-> 0]
    /\ mainPc = "balance"
    /\ mainIdx = 1
    /\ your_actual_balance = 0
    /\ portfolio_ratio = Rat(1, 100)
    /\ current_state = NoState
    /\ last_positions = <<>>
    /\ last_orders = <<>>
    /\ frame = NoFrame
    /\ monPc = Idle
    /\ tasks = <<>>
    /\ is_paused = FALSE
    /\ nFrames = 0
    /\ evCount = 0
    /\ lastDisp = [s \in Symbols |-> 0]
    /\ obs = NoObs
    /\ call = NoCall(FALSE)
    /\ stop = NotStopping
    /\ fmt = [pc |-> "idle"]

Init == StartOf(Settings)

InitLimits == StartOf(LimitSettings)

\* ---------------------------------------------- WalletMonitor (monitor.py)
\* WalletMonitor.get_current_state
get_current_state(ok) ==
    /\ current_state' = get_user_state(tgt, ok)
    /\ IF ok
       THEN /\ last_positions' = ParsePositions(tgt)
            /\ last_orders' = ParseOrders(tgt)
       ELSE UNCHANGED <<last_positions, last_orders>>

\* ------------------------------------------------ executor: order calls
\* a variant that posts the order without updating the leverage first
ExecEntryWithoutLeverage(intent) == "post"

\* execute_market_order / execute_limit_order update the leverage first when it is > 1
ExecEntry(intent) ==
    IF intent.kind \in {"market", "limit"} /\ intent.lev > 1 THEN "lev" ELSE "post"

\* the follower's position after the exchange has filled an IOC order of `wire` lots
FolAfter(pos, is_buy, wire, reduce_only) ==
    IF reduce_only
    THEN IF is_buy /\ pos < 0 THEN pos + Min(wire, -pos)
         ELSE IF ~is_buy /\ pos > 0 THEN pos - Min(wire, pos)
         ELSE pos
    ELSE IF is_buy THEN pos + wire ELSE pos - wire

\* the ways _update_leverage ends: the exchange answers the POST with HTTP 200
\* (True), with another status (False), or an exception is raised before the
\* POST has been made (False)
LeverageResults == {"ok", "http_error", "exception"}

\* TradeExecutor._update_leverage: the updateLeverage action (isCross true by
\* default) is POSTed unless an exception comes first; the caller awaits it and
\* ignores its result
ExecLeverage(i) ==
    /\ tasks[i].pc = "lev"
    /\ \E result \in LeverageResults :
          /\ obs' = IF result # "exception"
                    THEN [type |-> "lev", ev |-> tasks[i].ev, origin |-> tasks[i].origin,
                          sym |-> tasks[i].sym, leverage |-> tasks[i].intent.lev,
                          tlev |-> tasks[i].intent.tlev, is_cross |-> TRUE]
                    ELSE obs
          /\ tasks' = [tasks EXCEPT ![i].pc = "post",
                                    ![i].lev_update = IF result = "ok" THEN "ok"
                                                      ELSE "failed"]
    /\ UNCHANGED <<fmt, call, stop, settings, tgt, fol, mainPc, mainIdx, your_actual_balance,
                   portfolio_ratio, current_state, last_positions, last_orders, frame,
                   monPc, is_paused, nFrames, evCount, lastDisp>>

\* the follower's exposure in lots, summed across its positions
Exposure(acct) == SumAbs(acct.pos, SymOrder)

\* The mid price of the symbol when an order is submitted.  on_new_position has
\* asked for it (the price is taken not to move until the POST); the open
\* copied from a fill finds the market at any of the mid prices; for every
\* other submission the mid price is of no interest and left at 0.
MidNow(t) ==
    IF t.origin = "newpos" THEN {t.intent.mid}
    ELSE IF t.origin = "fill" /\ ~t.intent.is_closing THEN MidPrices
    ELSE {0}

\* The follower's resting orders are counted as far as max_open_orders can tell
\* them apart: up to one more than the limit, and not at all without a limit
\* (no code path reads the count).
OrdersCounted == IF max_open_orders = -1 THEN 0 ELSE max_open_orders + 1

\* the POST of the order action in execute_market_order, execute_limit_order and
\* execute_trigger_order, and the exchange's answer
ExecPost(i) ==
    LET t    == tasks[i]
        it   == t.intent
        wire == format_size(it.size)
    IN
    /\ t.pc = "post"
    /\ \E outcome \in {"ok", "rejected", "netfail"}, mid \in MidNow(t) :
          IF outcome = "netfail"
          THEN /\ Finish(i, "netfail")
               /\ UNCHANGED <<fol, lastDisp>>
          ELSE /\ tasks' = RemoveAt(tasks, i)
               /\ obs' = [type |-> "sub", ev |-> t.ev, origin |-> t.origin,
                          kind |-> it.kind, sym |-> t.sym, side |-> it.side,
                          size |-> it.size, wire |-> wire,
                          leverage |-> it.lev, tlev |-> it.tlev,
                          targetLev |-> tgt.pos[t.sym].lev,
                          targetPos |-> Abs(tgt.pos[t.sym].szi),
                          tpsl |-> IF it.kind # "trigger" THEN ""
                                   ELSE IF it.is_take_profit THEN "tp" ELSE "sl",
                          limit_px |-> IF it.kind # "trigger" THEN RInt(it.px)
                                       ELSE calculate_slippage_price(
                                                it.px, IsBuy(it.side), TriggerSlippage),
                          trigger_px |-> format_5g(RInt(it.px)),
                          reduce_only |-> it.reduce_only, px |-> it.px,
                          is_closing |-> it.is_closing, delta |-> it.delta, d |-> t.d,
                          paused |-> is_paused,
                          folBefore |-> Abs(fol.pos[t.sym]),
                          folSigned |-> fol.pos[t.sym],
                          folBalance |-> fol.balance,
                          exposure |-> Exposure(fol),
                          mid |-> mid,
                          prevEv |-> lastDisp[t.sym],
                          olderRunning |-> \E j \in DOMAIN tasks :
                                              /\ j # i
                                              /\ tasks[j].sym = t.sym
                                              /\ tasks[j].ev < t.ev]
               /\ lastDisp' = [lastDisp EXCEPT ![t.sym] = t.ev]
               /\ fol' = IF outcome = "ok" /\ it.kind = "market" /\ wire > 0
                         THEN [fol EXCEPT !.pos[t.sym] =
                                  FolAfter(fol.pos[t.sym], IsBuy(it.side), wire, it.reduce_only),
                                          !.balance = @ - fol.fee]
                         ELSE IF outcome = "ok" /\ wire > 0
                         THEN [fol EXCEPT !.orders = Min(@ + 1, OrdersCounted)]
                         ELSE fol
    /\ UNCHANGED <<fmt, call, stop, settings, tgt, mainPc, mainIdx, your_actual_balance,
                   portfolio_ratio, current_state, last_positions, last_orders, frame,
                   monPc, is_paused, nFrames, evCount>>

\* ------------------------------------------------------------ main(): start-up
\* your_actual_balance = await executor.get_account_balance()
MainFetchBalance ==
    /\ mainPc = "balance"
    /\ \E ok \in BOOLEAN :
          your_actual_balance' = IF ok THEN fol.balance ELSE simulated_account_balance
    /\ mainPc' = "state"
    /\ UNCHANGED <<fmt, call, stop, settings, tgt, fol, mainIdx, portfolio_ratio, current_state,
                   last_positions, last_orders, frame, monPc, tasks, is_paused,
                   nFrames, evCount, lastDisp, obs>>

\* state = await monitor.get_current_state(); auto_ratio.  The first fetch is
\* taken to succeed (the later ones may fail).
MainFetchState ==
    /\ mainPc = "state"
    /\ get_current_state(TRUE)
    /\ portfolio_ratio' = IF tgt.balance > 0 THEN Rat(your_actual_balance, tgt.balance)
                          ELSE RInt(1)
    /\ mainPc' = "copy_pos"
    /\ mainIdx' = 1
    /\ UNCHANGED <<fmt, call, stop, settings, tgt, fol, your_actual_balance, frame, monPc, tasks,
                   is_paused, nFrames, evCount, lastDisp, obs>>

\* the loop "COPYING EXISTING POSITIONS ON STARTUP": one iteration
MainCopyPosition ==
    /\ mainPc = "copy_pos"
    /\ tasks = <<>>
    /\ IF copy_open_positions /\ current_state.some
          /\ mainIdx <= Len(current_state.positions)
       THEN LET pos == current_state.positions[mainIdx]
                your_size == IF pos.entry_price > 0
                             THEN Rat(pos.size * pos.entry_price * portfolio_ratio.n,
                                      portfolio_ratio.d * pos.entry_price)
                             ELSE RInt(0)
                intent == [kind |-> "market",
                           side |-> IF pos.size > 0 THEN "LONG" ELSE "SHORT",
                           size |-> your_size,
                           lev |-> calculate_matching_leverage(pos.leverage, pos.symbol),
                           tlev |-> pos.leverage, reduce_only |-> FALSE,
                           px |-> pos.entry_price, is_closing |-> FALSE,
                           delta |-> pos.size]
            IN  /\ tasks' = << [ev |-> 0, origin |-> "startup_pos", sym |-> pos.symbol,
                                d |-> pos, pc |-> ExecEntry(intent), intent |-> intent,
                                     lev_update |-> ""] >>
                /\ mainIdx' = mainIdx + 1
                /\ UNCHANGED mainPc
       ELSE /\ mainPc' = "copy_ord"
            /\ mainIdx' = 1
            /\ UNCHANGED tasks
    /\ UNCHANGED <<fmt, call, stop, settings, tgt, fol, your_actual_balance, portfolio_ratio,
                   current_state, last_positions, last_orders, frame, monPc, is_paused,
                   nFrames, evCount, lastDisp, obs>>

\* the loop "COPYING EXISTING ORDERS ON STARTUP": one iteration
MainCopyOrder ==
    /\ mainPc = "copy_ord"
    /\ tasks = <<>>
    /\ IF copy_existing_orders /\ current_state.some
          /\ mainIdx <= Len(current_state.orders)
       THEN LET order == current_state.orders[mainIdx]
                intent == [kind |-> "limit",
                           side |-> IF order.side = "BUY" THEN "LONG" ELSE "SHORT",
                           size |-> Rat(order.size * order.price * portfolio_ratio.n,
                                        portfolio_ratio.d * order.price),
                           lev |-> 1, tlev |-> 10, reduce_only |-> FALSE,
                           px |-> order.price, is_closing |-> FALSE,
                           delta |-> order.size]
            IN  /\ tasks' = IF order.price <= 0 THEN tasks
                            ELSE << [ev |-> 0, origin |-> "startup_ord",
                                     sym |-> order.symbol, d |-> order,
                                     pc |-> ExecEntry(intent), intent |-> intent,
                                     lev_update |-> ""] >>
                /\ mainIdx' = mainIdx + 1
                /\ UNCHANGED mainPc
       ELSE /\ mainPc' = "telegram"
            /\ mainIdx' = 1
            /\ UNCHANGED tasks
    /\ UNCHANGED <<fmt, call, stop, settings, tgt, fol, your_actual_balance, portfolio_ratio,
                   current_state, last_positions, last_orders, frame, monPc, is_paused,
                   nFrames, evCount, lastDisp, obs>>

\* await telegram_bot.start(): from here on pause / resume commands can arrive
MainStartTelegram ==
    /\ mainPc = "telegram"
    /\ mainPc' = "state2"
    /\ UNCHANGED <<fmt, call, stop, settings, tgt, fol, mainIdx, your_actual_balance, portfolio_ratio,
                   current_state, last_positions, last_orders, frame, monPc, tasks,
                   is_paused, nFrames, evCount, lastDisp, obs>>

\* the second state = await monitor.get_current_state() of main()
MainFetchState2 ==
    /\ mainPc = "state2"
    /\ \E ok \in BOOLEAN : get_current_state(ok)
    /\ mainPc' = "copy_ord2"
    /\ mainIdx' = 1
    /\ UNCHANGED <<fmt, call, stop, settings, tgt, fol, your_actual_balance, portfolio_ratio, frame,
                   monPc, tasks, is_paused, nFrames, evCount,
                   lastDisp, obs>>

\* "Copying existing orders": await on_new_order(order_dict) for each order
MainCopyOrder2 ==
    /\ mainPc = "copy_ord2"
    /\ tasks = <<>>
    /\ IF copy_existing_orders /\ current_state.some
          /\ mainIdx <= Len(current_state.orders)
       THEN LET order == current_state.orders[mainIdx]
                order_dict == [oid |-> 0, coin |-> order.symbol, side |-> order.side,
                               sz |-> order.size, limitPx |-> order.price,
                               triggerPx |-> 0, isTrigger |-> FALSE,
                               triggerCondition |-> "", reduceOnly |-> FALSE]
            IN  /\ tasks' = << [ev |-> 0, origin |-> "order", sym |-> order.symbol,
                                d |-> order_dict, pc |-> "start", intent |-> NoIntent,
                                lev_update |-> ""] >>
                /\ mainIdx' = mainIdx + 1
                /\ UNCHANGED mainPc
       ELSE /\ mainPc' = "start"
            /\ mainIdx' = 1
            /\ UNCHANGED tasks
    /\ UNCHANGED <<fmt, call, stop, settings, tgt, fol, your_actual_balance, portfolio_ratio,
                   current_state, last_positions, last_orders, frame, monPc, is_paused,
                   nFrames, evCount, lastDisp, obs>>

\* monitor.start_monitoring(): initial state, connect, subscribe, listen
MainStartMonitoring ==
    /\ mainPc = "start"
    /\ \E ok \in BOOLEAN : get_current_state(ok)
    /\ mainPc' = "monitoring"
    /\ obs' = NoObs
    /\ UNCHANGED <<fmt, call, stop, settings, tgt, fol, mainIdx, your_actual_balance, portfolio_ratio,
                   frame, monPc, tasks, is_paused, nFrames,
                   evCount, lastDisp>>

\* ------------------------------------------------- Telegram commands
TelegramRunning == mainPc \in {"state2", "copy_ord2", "start", "monitoring"}

handle_pause ==
    /\ TelegramRunning
    /\ is_paused' = TRUE
    /\ UNCHANGED <<fmt, call, stop, settings, tgt, fol, mainPc, mainIdx, your_actual_balance,
                   portfolio_ratio, current_state, last_positions, last_orders, frame,
                   monPc, tasks, nFrames, evCount, lastDisp, obs>>

handle_resume ==
    /\ TelegramRunning
    /\ is_paused' = FALSE
    /\ UNCHANGED <<fmt, call, stop, settings, tgt, fol, mainPc, mainIdx, your_actual_balance,
                   portfolio_ratio, current_state, last_positions, last_orders, frame,
                   monPc, tasks, nFrames, evCount, lastDisp, obs>>

\* ------------------------------------- WalletMonitor._handle_update
\* the next thing _handle_update does from position mp: a fill left to hand over,
\* else the positions of the frame, else its orders, else it returns
Advance(f, mp) ==
    IF mp.phase = "fills" /\ f.hasF /\ mp.i <= Len(f.fills) THEN mp
    ELSE IF mp.phase \in {"fills", "positions"} /\ f.hasP
    THEN (IF mp.phase = "positions" THEN mp ELSE [phase |-> "positions", i |-> 1])
    ELSE IF mp.phase \in {"fills", "positions", "orders"} /\ f.hasO
    THEN (IF mp.phase = "orders" THEN mp ELSE [phase |-> "orders", i |-> 1])
    ELSE [phase |-> "handled", i |-> 0]

\* a variant that schedules the callback and goes on without waiting for it
CallbackNotAwaited == TRUE

\* "await self.on_...(item)": the monitor goes on when the callback has returned
CallbackAwaited == tasks = <<>>

\* the callback is invoked with the item
Emit(origin, sym, d) ==
    /\ tasks' = Append(tasks, [ev |-> evCount + 1, origin |-> origin, sym |-> sym,
                               d |-> d, pc |-> "start", intent |-> NoIntent,
                               lev_update |-> ""])
    /\ evCount' = evCount + 1

\* ------------------------------------------------ the target trades (stream)
\* HyperliquidWebSocket.listen hands one frame at a time to _handle_update
ListenReady == mainPc = "monitoring" /\ monPc = Idle

OpenDir(long) == IF long THEN "Open Long" ELSE "Open Short"

CloseDir(long) == IF long THEN "Close Long" ELSE "Close Short"

IsClose(dir) == dir \in {"Close Long", "Close Short"}

IsOpen(dir) == dir \in {"Open Long", "Open Short"}

\* "Long" in direction
HasLong(dir) == dir \in {"Open Long", "Close Long", "Long > Short", "Short > Long"}

FrameKeys == {<<TRUE, TRUE>>, <<TRUE, FALSE>>, <<FALSE, TRUE>>}

\* the ways the exchange fills an order of q lots: at once, or in two partial
\* fills that carry the same oid
FillParts(q) == {<<q>>} \cup (IF q > 8 THEN {<<8, q - 8>>} ELSE {})

\* the fills of one order: sign = +1 for a buy, -1 for a sell
OrderFills(s, sign, parts, px, dir, start, oid) ==
    [k \in 1..Len(parts) |->
        [coin |-> s, side |-> IF sign > 0 THEN "B" ELSE "A", sz |-> parts[k],
         px |-> px, dir |-> dir,
         startPosition |-> IF k = 1 THEN start ELSE start + sign * parts[1],
         oid |-> oid]]

\* the trades that open or increase a position: both sides and both sizes on
\* the symbols that are copied, one trade on the blocked symbol
OpenInputs ==
    { [coin |-> s, long |-> l, sz |-> q] :
          s \in Symbols \ blocked_assets, l \in BOOLEAN, q \in TargetSizes }
    \cup { [coin |-> s, long |-> TRUE, sz |-> 8] : s \in blocked_assets }

\* the target opens or increases a position; the stream reports the fill,
\* the position record, or both
TargetOpens ==
    /\ ListenReady
    /\ nFrames < MaxFrames
    /\ \E trade \in OpenInputs, px \in Prices, keys \in FrameKeys :
       \E parts \in FillParts(trade.sz) :
          LET s      == trade.coin
              long   == trade.long
              q      == trade.sz
              old    == tgt.pos[s]
              lv     == TargetLeverage(s, long)
              newszi == IF long THEN old.szi + q ELSE old.szi - q
              newpos == [szi |-> newszi, entryPx |-> px,
                         lev |-> IF old.szi = 0 THEN lv ELSE old.lev]
              fills  == OrderFills(s, IF long THEN 1 ELSE -1, parts, px, OpenDir(long),
                                   old.szi, 100 + nFrames)
              rec    == [coin |-> s, szi |-> newszi, entryPx |-> px, lev |-> newpos.lev]
          IN  /\ old.szi = 0 \/ (old.szi > 0) = long
              /\ keys[1] \/ Len(parts) = 1
              /\ tgt' = [tgt EXCEPT !.pos[s] = newpos]
              /\ frame' = [NoFrame EXCEPT !.hasF = keys[1],
                                          !.fills = IF keys[1] THEN fills ELSE <<>>,
                                          !.hasP = keys[2],
                                          !.positions = IF keys[2] THEN <<rec>> ELSE <<>>,
                                          !.ev0 = 0]
    /\ monPc' = Advance(frame', [phase |-> "fills", i |-> 1])
    /\ nFrames' = nFrames + 1
    /\ obs' = NoObs
    /\ UNCHANGED <<fmt, call, stop, settings, fol, mainPc, mainIdx, your_actual_balance, portfolio_ratio,
                   current_state, last_positions, last_orders, tasks, is_paused,
                   evCount, lastDisp>>

\* the target closes a position or a part of it
TargetCloses ==
    /\ ListenReady
    /\ nFrames < MaxFrames
    /\ \E s \in Symbols, keys \in FrameKeys :
          LET old == tgt.pos[s] IN
          /\ old.szi # 0
          /\ \E c \in {x \in TargetSizes \cup {Abs(old.szi)} : x <= Abs(old.szi)} :
                LET parts  == <<c>>
                    long   == old.szi > 0
                    newszi == IF long THEN old.szi - c ELSE old.szi + c
                    fills  == OrderFills(s, IF long THEN -1 ELSE 1, parts, old.entryPx,
                                         CloseDir(long), old.szi, 100 + nFrames)
                    rec    == [coin |-> s, szi |-> newszi, entryPx |-> old.entryPx,
                               lev |-> old.lev]
                IN  /\ tgt' = [tgt EXCEPT !.pos[s] =
                                  IF newszi = 0 THEN NoPos ELSE [old EXCEPT !.szi = newszi]]
                    /\ frame' = [NoFrame EXCEPT
                                    !.hasF = keys[1],
                                    !.fills = IF keys[1] THEN fills ELSE <<>>,
                                    !.hasP = keys[2],
                                    !.positions = IF keys[2] THEN <<rec>> ELSE <<>>,
                                          !.ev0 = 0]
    /\ monPc' = Advance(frame', [phase |-> "fills", i |-> 1])
    /\ nFrames' = nFrames + 1
    /\ obs' = NoObs
    /\ UNCHANGED <<fmt, call, stop, settings, fol, mainPc, mainIdx, your_actual_balance, portfolio_ratio,
                   current_state, last_positions, last_orders, tasks, is_paused,
                   evCount, lastDisp>>

OrderKinds == {"limit", "gt", "lt"}

\* the trigger price of the target's trigger orders, in USD per lot
TriggerPrice(k) == IF k = "gt" THEN 65433 ELSE 2

OrderSymbols == {"BTC", "DOGE"}

\* the orders the target places: every kind and side for the smaller size on
\* the symbol it holds, one stop order larger than its position, and one limit
\* order on the blocked symbol
OrderInputs ==
    { o \in [coin : OrderSymbols, side : {"B", "A"}, sz : OrderSizes, kind : OrderKinds] :
         /\ o.sz = 60 => o.side = "B" /\ o.kind = "gt"
         /\ o.coin \in blocked_assets => o.side = "B" /\ o.kind = "limit" /\ o.sz = 30 }

\* the target places a limit order or a trigger order
TargetPlacesOrder ==
    /\ ListenReady
    /\ nFrames < MaxFrames
    /\ Len(tgt.orders) < MaxOrders
    /\ \E o \in OrderInputs, px \in Prices :
          LET s     == o.coin
              side  == o.side
              q     == o.sz
              k     == o.kind
              order == [oid |-> 100 + nFrames, coin |-> s, side |-> side, sz |-> q,
                        limitPx |-> px,
                        triggerPx |-> IF k = "limit" THEN 0 ELSE TriggerPrice(k),
                        isTrigger |-> k # "limit",
                        triggerCondition |-> IF k = "limit" THEN "" ELSE k,
                        reduceOnly |-> k # "limit"]
          IN  /\ tgt' = [tgt EXCEPT !.orders = Append(tgt.orders, order)]
              /\ frame' = [NoFrame EXCEPT !.hasO = TRUE, !.orders = <<order>>,
                                          !.ev0 = 0]
    /\ monPc' = Advance(frame', [phase |-> "fills", i |-> 1])
    /\ nFrames' = nFrames + 1
    /\ obs' = NoObs
    /\ UNCHANGED <<fmt, call, stop, settings, fol, mainPc, mainIdx, your_actual_balance, portfolio_ratio,
                   current_state, last_positions, last_orders, tasks, is_paused,
                   evCount, lastDisp>>

\* the stream delivers the positions and orders of the frame just handled a
\* second time (a snapshot that repeats)
Redeliver ==
    /\ mainPc = "monitoring"
    /\ monPc.phase = "handled"
    /\ CallbackAwaited
    /\ ~frame.redelivery
    /\ frame.hasP \/ frame.hasO
    /\ frame' = [frame EXCEPT !.hasF = FALSE, !.fills = <<>>, !.redelivery = TRUE,
                              !.ev0 = evCount]
    /\ monPc' = Advance(frame', [phase |-> "fills", i |-> 1])
    /\ obs' = NoObs
    /\ UNCHANGED <<fmt, call, stop, settings, tgt, fol, mainPc, mainIdx, your_actual_balance,
                   portfolio_ratio, current_state, last_positions, last_orders, tasks,
                   is_paused, nFrames, evCount, lastDisp>>

\* _handle_update has returned and the listen loop waits for the next frame
FrameHandled ==
    /\ monPc.phase = "handled"
    /\ CallbackAwaited
    /\ monPc' = Idle
    /\ frame' = NoFrame
    /\ evCount' = 0
    /\ lastDisp' = [s \in Symbols |-> 0]
    /\ obs' = NoObs
    /\ UNCHANGED <<fmt, call, stop, settings, tgt, fol, mainPc, mainIdx, your_actual_balance,
                   portfolio_ratio, current_state, last_positions, last_orders, tasks,
                   is_paused, nFrames>>

\* WalletMonitor._handle_fills: one iteration of the loop
HandleFills ==
    /\ monPc.phase = "fills"
    /\ CallbackAwaited
    /\ obs' = NoObs
    /\ LET fill == frame.fills[monPc.i] IN
       /\ IF fill.coin \in blocked_assets
          THEN UNCHANGED <<tasks, evCount>>
          ELSE Emit("fill", fill.coin, fill)
       /\ monPc' = Advance(frame, [monPc EXCEPT !.i = monPc.i + 1])
    /\ UNCHANGED <<fmt, call, stop, settings, tgt, fol, mainPc, mainIdx, your_actual_balance,
                   portfolio_ratio, current_state, last_positions, last_orders, frame,
                   is_paused, nFrames, lastDisp>>

\* the callback _handle_positions chooses for a position record ("" for none)
PositionEvent(pos_data) ==
    LET existing == FindPosition(last_positions, pos_data.coin) IN
    IF existing = <<>> /\ pos_data.szi # 0 THEN "newpos"
    ELSE IF existing # <<>> /\ pos_data.szi = 0 THEN "posclose"
    ELSE IF existing # <<>> /\ Abs(pos_data.szi) # Abs(existing[1].size) THEN "posupdate"
    ELSE ""

\* WalletMonitor._handle_positions: one iteration, or the refresh that ends it
HandlePositions ==
    /\ monPc.phase = "positions"
    /\ CallbackAwaited
    /\ obs' = NoObs
    /\ IF monPc.i <= Len(frame.positions)
       THEN LET pos_data == frame.positions[monPc.i] IN
            /\ IF pos_data.coin \in blocked_assets \/ PositionEvent(pos_data) = ""
               THEN UNCHANGED <<tasks, evCount>>
               ELSE Emit(PositionEvent(pos_data), pos_data.coin, pos_data)
            /\ monPc' = [monPc EXCEPT !.i = monPc.i + 1]
            /\ UNCHANGED <<current_state, last_positions, last_orders>>
       ELSE /\ \E ok \in BOOLEAN : get_current_state(ok)
            /\ monPc' = Advance(frame, [phase |-> "orders", i |-> 1])
            /\ UNCHANGED <<tasks, evCount>>
    /\ UNCHANGED <<fmt, call, stop, settings, tgt, fol, mainPc, mainIdx, your_actual_balance,
                   portfolio_ratio, frame, is_paused, nFrames,
                   lastDisp>>

\* WalletMonitor._handle_orders: one iteration, or the refresh that ends it
HandleOrders ==
    /\ monPc.phase = "orders"
    /\ CallbackAwaited
    /\ obs' = NoObs
    /\ IF monPc.i <= Len(frame.orders)
       THEN LET order_data == frame.orders[monPc.i] IN
            /\ IF FindOrder(last_orders, order_data.oid) = <<>>
               THEN Emit("order", order_data.coin, order_data)
               ELSE UNCHANGED <<tasks, evCount>>
            /\ monPc' = [monPc EXCEPT !.i = monPc.i + 1]
            /\ UNCHANGED <<current_state, last_positions, last_orders>>
       ELSE /\ \E ok \in BOOLEAN : get_current_state(ok)
            /\ monPc' = [phase |-> "handled", i |-> 0]
            /\ UNCHANGED <<tasks, evCount>>
    /\ UNCHANGED <<fmt, call, stop, settings, tgt, fol, mainPc, mainIdx, your_actual_balance,
                   portfolio_ratio, frame, is_paused, nFrames,
                   lastDisp>>

\* ------------------------------------------------------ main.on_order_fill
\* up to the first await: the pause check
FillStart(i) ==
    /\ tasks[i].origin = "fill"
    /\ tasks[i].pc = "start"
    /\ IF is_paused
       THEN Finish(i, "paused")
       ELSE /\ tasks' = [tasks EXCEPT ![i].pc = "fetch"]
            /\ UNCHANGED obs
    /\ UNCHANGED <<fmt, call, stop, settings, tgt, fol, mainPc, mainIdx, your_actual_balance,
                   portfolio_ratio, current_state, last_positions, last_orders, frame,
                   monPc, is_paused, nFrames, evCount, lastDisp>>

\* a variant that scales the target's close size by the balance ratio
CloseSizeScaled(your_position_size, target_size, target_position_before) ==
    Rat(target_size * fol.balance, tgt.balance)

\* the size on_order_fill computes for a close
CloseSize(your_position_size, target_size, target_position_before) ==
    LET our_size == IF Abs(target_position_before) > 0
                    THEN Rat(your_position_size * target_size, Abs(target_position_before))
                    ELSE RInt(your_position_size)
    IN  IF RLess(RInt(your_position_size), our_size)
        THEN RInt(your_position_size) ELSE our_size

\* the size on_order_fill computes for an open
OpenSize(fill) ==
    LET found == IF current_state.some
                 THEN FindPosition(current_state.positions, fill.coin) ELSE <<>>
        tsize == IF found # <<>> THEN found[1].size ELSE fill.sz
        entry == IF found # <<>> THEN found[1].entry_price ELSE fill.px
        target_balance == IF current_state.some THEN current_state.balance
                          ELSE DefaultTargetBalance
    IN  calculate_size(tsize, entry, target_balance,
                       IF your_actual_balance > 0 THEN your_actual_balance
                       ELSE simulated_account_balance)

\* the leverage of the target's position in monitor.current_state, 1.0 without one
TargetLeverageOf(symbol) ==
    LET found == IF current_state.some
                 THEN FindPosition(current_state.positions, symbol) ELSE <<>>
    IN  IF found # <<>> THEN found[1].leverage ELSE 10

\* Open Long = BUY, Close Long = SELL, Open Short = SELL, Close Short = BUY
FillOrderSide(dir) ==
    IF IsOpen(dir) THEN (IF HasLong(dir) THEN "BUY" ELSE "SELL")
    ELSE (IF HasLong(dir) THEN "SELL" ELSE "BUY")

\* The global your_positions_cache is assigned here and in on_new_order and is
\* never read before it is assigned again (a failed request leaves the sizes at
\* 0), so it is a local of the step.
\* from "your_positions_cache = await executor.get_my_positions()" to the call
\* of executor.execute_limit_order / execute_market_order
FillFetch(i) ==
    LET t    == tasks[i]
        fill == t.d
    IN
    /\ t.origin = "fill"
    /\ t.pc = "fetch"
    /\ \E ok \in BOOLEAN :
          LET cache == IF ok THEN get_my_positions(fol) ELSE <<>>
              your_position_size == IF ok THEN CacheSize(cache, fill.coin) ELSE 0
              is_closing == IsClose(fill.dir)
              our_size == IF is_closing
                          THEN CloseSize(your_position_size, fill.sz, fill.startPosition)
                          ELSE OpenSize(fill)
              tlev == TargetLeverageOf(fill.coin)
              intent == [kind |-> IF settings.use_limit_orders THEN "limit" ELSE "market",
                         side |-> FillOrderSide(fill.dir),
                         size |-> our_size,
                         lev |-> calculate_matching_leverage(tlev, fill.coin),
                         tlev |-> tlev, reduce_only |-> is_closing,
                         px |-> fill.px, is_closing |-> is_closing, delta |-> fill.sz]
          IN  IF is_closing /\ your_position_size <= 0
                 THEN Finish(i, "nothing_to_close")
                 ELSE IF ~is_closing /\ our_size.n > 0 /\ fill.sz > 0
                         /\ (your_actual_balance = 0
                               \/ (current_state.some /\ current_state.balance <= 0))
                 THEN Finish(i, "exception")
                 ELSE IF our_size.n <= 0
                 THEN Finish(i, "zero_size")
                 ELSE IF our_size.n * fill.px < MIN_ORDER_VALUE * our_size.d
                 THEN Finish(i, "min_notional")
                 ELSE /\ tasks' = [tasks EXCEPT ![i].pc = ExecEntry(intent),
                                                ![i].intent = intent]
                      /\ UNCHANGED obs
    /\ UNCHANGED <<fmt, call, stop, settings, tgt, fol, mainPc, mainIdx, your_actual_balance,
                   portfolio_ratio, current_state, last_positions, last_orders, frame,
                   monPc, is_paused, nFrames, evCount, lastDisp>>

\* ---------------------------------------------------- main.on_new_position
\* up to the first await: pause, max open trades, max account equity
NewPositionStart(i) ==
    /\ tasks[i].origin = "newpos"
    /\ tasks[i].pc = "start"
    /\ IF is_paused
       THEN Finish(i, "paused") /\ UNCHANGED is_paused
       ELSE IF max_open_trades # -1
               /\ (IF current_state.some THEN Len(current_state.positions) ELSE 0)
                      >= max_open_trades
       THEN Finish(i, "max_open_trades") /\ UNCHANGED is_paused
       ELSE IF settings.max_account_equity # -1
               /\ (IF current_state.some THEN total_equity(current_state) ELSE 0)
                      >= settings.max_account_equity
       THEN Finish(i, "max_account_equity") /\ is_paused' = TRUE
       ELSE /\ tasks' = [tasks EXCEPT ![i].pc = "price"]
            /\ UNCHANGED <<obs, is_paused>>
    /\ UNCHANGED <<fmt, call, stop, settings, tgt, fol, mainPc, mainIdx, your_actual_balance,
                   portfolio_ratio, current_state, last_positions, last_orders, frame,
                   monPc, nFrames, evCount, lastDisp>>

\* from "current_price = await client.get_market_price(symbol)" to the call of
\* executor.execute_market_order; mid = 0 is a failed or empty price query
NewPositionPrice(i) ==
    LET t        == tasks[i]
        pos_data == t.d
    IN
    /\ t.origin = "newpos"
    /\ t.pc = "price"
    /\ \E mid \in MidPrices, ok \in BOOLEAN :
          LET current_price == IF ok THEN mid ELSE pos_data.entryPx
              intent == [kind |-> "market", mid |-> mid,
                         side |-> IF pos_data.szi > 0 THEN "LONG" ELSE "SHORT",
                         size |-> Rat(Abs(pos_data.szi) * portfolio_ratio.n,
                                      portfolio_ratio.d),
                         lev |-> calculate_matching_leverage(pos_data.lev, pos_data.coin),
                         tlev |-> pos_data.lev, reduce_only |-> FALSE,
                         px |-> pos_data.entryPx, is_closing |-> FALSE,
                         delta |-> Abs(pos_data.szi)]
          IN  IF ~should_copy_position(pos_data.entryPx, current_price,
                                       min_entry_quality_pct)
              THEN Finish(i, "entry_quality")
              ELSE /\ tasks' = [tasks EXCEPT ![i].pc = ExecEntry(intent),
                                             ![i].intent = intent]
                   /\ UNCHANGED obs
    /\ UNCHANGED <<fmt, call, stop, settings, tgt, fol, mainPc, mainIdx, your_actual_balance,
                   portfolio_ratio, current_state, last_positions, last_orders, frame,
                   monPc, is_paused, nFrames, evCount, lastDisp>>

\* a variant in which the callback's exception ends the loop over the records
CallbackErrorEndsLoop(mp) == [phase |-> "positions", i |-> Len(frame.positions) + 1]

\* "try: await self.on_position_close(pos_data) / except Exception as e:
\* logger.error(...)": where _handle_positions stands after the callback has
\* raised; the error is logged and the loop goes on with the next record
CallbackErrorLogged(mp) == mp

\* --------------------------------------------------- main.on_position_close
\* "await executor.close_position(symbol)": close_position(symbol, size, side)
\* is called without size and side, which raises TypeError; the monitor logs it
PositionClose(i) ==
    /\ tasks[i].origin = "posclose"
    /\ tasks[i].pc = "start"
    /\ Finish(i, "exception")
    /\ monPc' = CallbackErrorLogged(monPc)
    /\ UNCHANGED <<fmt, call, stop, settings, tgt, fol, mainPc, mainIdx, your_actual_balance,
                   portfolio_ratio, current_state, last_positions, last_orders, frame,
                   is_paused, nFrames, evCount, lastDisp>>

\* -------------------------------------------------- main.on_position_update
PositionUpdate(i) ==
    /\ tasks[i].origin = "posupdate"
    /\ tasks[i].pc = "start"
    /\ Finish(i, "logged")
    /\ UNCHANGED <<fmt, call, stop, settings, tgt, fol, mainPc, mainIdx, your_actual_balance,
                   portfolio_ratio, current_state, last_positions, last_orders, frame,
                   monPc, is_paused, nFrames, evCount, lastDisp>>

\* ------------------------------------------------------- main.on_new_order
OrderSideOf(order_data) == IF order_data.side = "B" THEN "BUY" ELSE "SELL"

HasTrigger(order_data) == order_data.isTrigger \/ order_data.triggerPx # 0

\* a variant that classifies by the trigger condition alone
is_take_profit_by_condition(order_data) ==
    /\ HasTrigger(order_data)
    /\ order_data.triggerCondition = "gt"

is_take_profit(order_data) ==
    /\ HasTrigger(order_data)
    /\ \/ order_data.triggerCondition = "gt" /\ OrderSideOf(order_data) = "SELL"
       \/ order_data.triggerCondition = "lt" /\ OrderSideOf(order_data) = "BUY"

is_stop_loss(order_data) ==
    /\ HasTrigger(order_data)
    /\ \/ order_data.triggerCondition = "gt" /\ OrderSideOf(order_data) = "BUY"
       \/ order_data.triggerCondition = "lt" /\ OrderSideOf(order_data) = "SELL"

\* the size of a copied limit order
LimitOrderSize(order_data) ==
    IF auto_adjust_size
    THEN calculate_size(order_data.sz, order_data.limitPx,
                        IF current_state.some THEN current_state.balance
                        ELSE DefaultTargetBalance,
                        IF your_actual_balance > 0 THEN your_actual_balance
                        ELSE simulated_account_balance)
    ELSE RInt(order_data.sz)

\* the size of a copied TP/SL order
TriggerOrderSize(your_position_size, order_data) ==
    LET found == IF current_state.some
                 THEN FindPosition(current_state.positions, order_data.coin) ELSE <<>>
        target_position_size == IF found # <<>> THEN Abs(found[1].size) ELSE 0
    IN  IF target_position_size > 0
        THEN Rat(your_position_size * order_data.sz, target_position_size)
        ELSE RInt(your_position_size)

\* up to the first await: pause, copy_existing_orders, max open orders; a limit
\* order is sized and handed to executor.execute_limit_order
NewOrderStart(i) ==
    LET t          == tasks[i]
        order_data == t.d
        our_size   == LimitOrderSize(order_data)
        intent == [kind |-> "limit", side |-> OrderSideOf(order_data),
                   size |-> our_size, lev |-> 1, tlev |-> 10,
                   reduce_only |-> order_data.reduceOnly, px |-> order_data.limitPx,
                   is_closing |-> FALSE, delta |-> order_data.sz]
    IN
    /\ t.origin = "order"
    /\ t.pc = "start"
    /\ IF is_paused
       THEN Finish(i, "paused")
       ELSE IF ~copy_existing_orders
       THEN Finish(i, "copy_disabled")
       ELSE IF max_open_orders # -1
               /\ (IF current_state.some THEN Len(current_state.orders) ELSE 0)
                      >= max_open_orders
       THEN Finish(i, "max_open_orders")
       ELSE IF is_stop_loss(order_data) \/ is_take_profit(order_data)
       THEN /\ tasks' = [tasks EXCEPT ![i].pc = "fetch"]
            /\ UNCHANGED obs
       ELSE IF our_size.n <= 0
       THEN Finish(i, "zero_size")
       ELSE /\ tasks' = [tasks EXCEPT ![i].pc = ExecEntry(intent), ![i].intent = intent]
            /\ UNCHANGED obs
    /\ UNCHANGED <<fmt, call, stop, settings, tgt, fol, mainPc, mainIdx, your_actual_balance,
                   portfolio_ratio, current_state, last_positions, last_orders, frame,
                   monPc, is_paused, nFrames, evCount, lastDisp>>

\* TP/SL: from "your_positions_cache = await executor.get_my_positions()" to the
\* call of executor.execute_trigger_order
NewOrderFetch(i) ==
    LET t          == tasks[i]
        order_data == t.d
    IN
    /\ t.origin = "order"
    /\ t.pc = "fetch"
    /\ \E ok \in BOOLEAN :
          LET cache == IF ok THEN get_my_positions(fol) ELSE <<>>
              your_position_size == IF ok THEN CacheSize(cache, order_data.coin) ELSE 0
              our_size == TriggerOrderSize(your_position_size, order_data)
              intent == [kind |-> "trigger", side |-> OrderSideOf(order_data),
                         size |-> our_size, lev |-> 1, tlev |-> 10,
                         reduce_only |-> TRUE, px |-> order_data.triggerPx,
                         is_closing |-> TRUE, delta |-> order_data.sz,
                         is_take_profit |-> is_take_profit(order_data)]
          IN  IF your_position_size <= 0
                 THEN Finish(i, "no_position")
                 ELSE IF our_size.n <= 0
                 THEN Finish(i, "zero_size")
                 ELSE /\ tasks' = [tasks EXCEPT ![i].pc = ExecEntry(intent),
                                                ![i].intent = intent]
                      /\ UNCHANGED obs
    /\ UNCHANGED <<fmt, call, stop, settings, tgt, fol, mainPc, mainIdx, your_actual_balance,
                   portfolio_ratio, current_state, last_positions, last_orders, frame,
                   monPc, is_paused, nFrames, evCount, lastDisp>>

\* ------------------------------------ further frames of the target's stream
\* the sizes a position has after an order that crosses zero: the same size on
\* the other side, or a different one
FlipSizes == {15, 45}

\* the target reverses a position with one order; the stream reports the
\* position record, whose szi has the opposite sign
TargetFlips ==
    /\ ListenReady
    /\ nFrames < MaxFrames
    /\ \E s \in Symbols \ blocked_assets, m \in FlipSizes, px \in Prices :
          LET old    == tgt.pos[s]
              newszi == IF old.szi > 0 THEN -m ELSE m
              rec    == [coin |-> s, szi |-> newszi, entryPx |-> px, lev |-> old.lev]
          IN  /\ old.szi # 0
              /\ tgt' = [tgt EXCEPT !.pos[s] = [old EXCEPT !.szi = newszi, !.entryPx = px]]
              /\ frame' = [NoFrame EXCEPT !.hasP = TRUE, !.positions = <<rec>>]
    /\ monPc' = Advance(frame', [phase |-> "fills", i |-> 1])
    /\ nFrames' = nFrames + 1
    /\ obs' = NoObs
    /\ UNCHANGED <<fmt, call, stop, settings, fol, mainPc, mainIdx, your_actual_balance, portfolio_ratio,
                   current_state, last_positions, last_orders, tasks, is_paused,
                   evCount, lastDisp>>

\* the target cancels one of its open orders; the stream reports the orders
\* that are left
TargetCancelsOrder ==
    /\ ListenReady
    /\ nFrames < MaxFrames
    /\ \E k \in DOMAIN tgt.orders :
          /\ tgt' = [tgt EXCEPT !.orders = RemoveAt(tgt.orders, k)]
          /\ frame' = [NoFrame EXCEPT !.hasO = TRUE, !.orders = RemoveAt(tgt.orders, k)]
    /\ monPc' = Advance(frame', [phase |-> "fills", i |-> 1])
    /\ nFrames' = nFrames + 1
    /\ obs' = NoObs
    /\ UNCHANGED <<fmt, call, stop, settings, fol, mainPc, mainIdx, your_actual_balance, portfolio_ratio,
                   current_state, last_positions, last_orders, tasks, is_paused,
                   evCount, lastDisp>>

\* the target reduces one position and opens another; one frame carries both
\* fills, in either order
TargetClosesAndOpens ==
    /\ ListenReady
    /\ nFrames < MaxFrames
    /\ \E sc \in Symbols \ blocked_assets, so \in Symbols \ blocked_assets,
          closeFirst \in BOOLEAN, px \in Prices :
          LET old   == tgt.pos[sc]
              long  == old.szi > 0
              c     == 30
              q     == 30
              close == OrderFills(sc, IF long THEN -1 ELSE 1, <<c>>, old.entryPx,
                                  CloseDir(long), old.szi, 100 + nFrames)
              open  == OrderFills(so, 1, <<q>>, px, OpenDir(TRUE), 0, 200 + nFrames)
          IN  /\ sc # so
              /\ Abs(old.szi) > c
              /\ tgt.pos[so].szi = 0
              /\ tgt' = [tgt EXCEPT
                           !.pos[sc] = [old EXCEPT !.szi = IF long THEN old.szi - c
                                                            ELSE old.szi + c],
                           !.pos[so] = [szi |-> q, entryPx |-> px,
                                        lev |-> TargetLeverage(so, TRUE)]]
              /\ frame' = [NoFrame EXCEPT
                              !.hasF = TRUE,
                              !.fills = IF closeFirst THEN close \o open
                                        ELSE open \o close]
    /\ monPc' = Advance(frame', [phase |-> "fills", i |-> 1])
    /\ nFrames' = nFrames + 1
    /\ obs' = NoObs
    /\ UNCHANGED <<fmt, call, stop, settings, fol, mainPc, mainIdx, your_actual_balance, portfolio_ratio,
                   current_state, last_positions, last_orders, tasks, is_paused,
                   evCount, lastDisp>>

\* the target reverses a position with one order; the stream reports its fill,
\* whose direction names both sides
TargetReverses ==
    /\ ListenReady
    /\ nFrames < MaxFrames
    /\ \E s \in Symbols \ blocked_assets, m \in FlipSizes, px \in Prices :
          LET old    == tgt.pos[s]
              long   == old.szi > 0
              newszi == IF long THEN -m ELSE m
              \* the direction the exchange gives the fill of an order that
              \* takes the position through zero
              dir    == IF long THEN "Long > Short" ELSE "Short > Long"
              fills  == OrderFills(s, IF long THEN -1 ELSE 1, <<Abs(old.szi) + m>>, px,
                                   dir, old.szi, 100 + nFrames)
          IN  /\ old.szi # 0
              /\ tgt' = [tgt EXCEPT !.pos[s] = [old EXCEPT !.szi = newszi, !.entryPx = px]]
              /\ frame' = [NoFrame EXCEPT !.hasF = TRUE, !.fills = fills]
    /\ monPc' = Advance(frame', [phase |-> "fills", i |-> 1])
    /\ nFrames' = nFrames + 1
    /\ obs' = NoObs
    /\ UNCHANGED <<fmt, call, stop, settings, fol, mainPc, mainIdx, your_actual_balance,
                   portfolio_ratio, current_state, last_positions, last_orders, tasks,
                   is_paused, evCount, lastDisp>>

\* the target closes one position and opens another; one frame carries both
\* position records, in either order
TargetSwitches ==
    /\ ListenReady
    /\ nFrames < MaxFrames
    /\ \E sc \in Symbols \ blocked_assets, so \in Symbols \ blocked_assets,
          closeFirst \in BOOLEAN, px \in Prices :
          LET old   == tgt.pos[sc]
              q     == 30
              lv    == TargetLeverage(so, TRUE)
              close == [coin |-> sc, szi |-> 0, entryPx |-> old.entryPx, lev |-> old.lev]
              open  == [coin |-> so, szi |-> q, entryPx |-> px, lev |-> lv]
          IN  /\ sc # so
              /\ old.szi # 0
              /\ tgt.pos[so].szi = 0
              /\ tgt' = [tgt EXCEPT !.pos[sc] = NoPos,
                                    !.pos[so] = [szi |-> q, entryPx |-> px, lev |-> lv]]
              /\ frame' = [NoFrame EXCEPT
                              !.hasP = TRUE,
                              !.positions = IF closeFirst THEN <<close, open>>
                                            ELSE <<open, close>>]
    /\ monPc' = Advance(frame', [phase |-> "fills", i |-> 1])
    /\ nFrames' = nFrames + 1
    /\ obs' = NoObs
    /\ UNCHANGED <<fmt, call, stop, settings, fol, mainPc, mainIdx, your_actual_balance,
                   portfolio_ratio, current_state, last_positions, last_orders, tasks,
                   is_paused, evCount, lastDisp>>

\* the state in which monitoring starts when the start-up has succeeded under
\* the default configuration: the follower holds what the start-up has copied
\* of the target's position, and atom lots of ATOM
StreamStart(target, atom, fee) ==
    /\ settings = DefaultSettings
    /\ tgt = target
    /\ fol = [pos |-> [s \in Symbols |-> IF s = "BTC" THEN -22
                                        ELSE IF s = "ATOM" THEN atom ELSE 0],
              balance |-> Balances.follower, orders |-> 0, fee |-> fee]
    /\ mainPc = "monitoring"
    /\ mainIdx = 1
    /\ your_actual_balance = Balances.follower
    /\ portfolio_ratio = Rat(1, 2)
    /\ current_state = get_user_state(target, TRUE)
    /\ last_positions = ParsePositions(target)
    /\ last_orders = ParseOrders(target)
    /\ frame = NoFrame
    /\ monPc = Idle
    /\ tasks = <<>>
    /\ is_paused = FALSE
    /\ nFrames = 0
    /\ evCount = 0
    /\ lastDisp = [s \in Symbols |-> 0]
    /\ obs = NoObs
    /\ call = NoCall(FALSE)
    /\ stop = NotStopping
    /\ fmt = [pc |-> "idle"]

\* the exchange charges nothing for a fill
InitStream == StreamStart(InitTarget, 0, 0)

\* the states between two frames: the first frame was a snapshot that showed
\* nothing new, or it was the position record of a new short of 8 ATOM at 5x,
\* for which on_new_position has sold 4 lots, and the monitor has taken its
\* snapshot again
InitSecondFrame ==
    \/ StreamStart(InitTarget, 0, 0)
    \/ StreamStart([InitTarget EXCEPT
                       !.pos["ATOM"] = [szi |-> -8, entryPx |-> 2, lev |-> 50]],
                   -4, 0)

\* monitoring starts on an exchange that takes a tenth of the follower's
\* first balance from the account value for each fill
InitFees == StreamStart(InitTarget, 0, Balances.follower \div 10)

\* ------------------------------------ TradeExecutor, the formatters as strings
\* a string is the sequence of its characters
DigitChars == <<"0", "1", "2", "3", "4", "5", "6", "7", "8", "9">>

RECURSIVE DecimalString(_)
\* the decimal digits of the integer q >= 0, as format() writes an integer part
DecimalString(q) ==
    IF q < 10 THEN <<DigitChars[q + 1]>>
    ELSE Append(DecimalString(q \div 10), DigitChars[(q % 10) + 1])

RECURSIVE ZeroPadded(_, _)
\* the last k decimal digits of q, with leading zeros
ZeroPadded(q, k) ==
    IF k = 0 THEN <<>>
    ELSE Append(ZeroPadded(q \div 10, k - 1), DigitChars[(q % 10) + 1])

\* f"{x:.{decimals}f}" for x = r / 10^decimals, r >= 0: no point without decimals
FixedPoint(r, decimals) ==
    DecimalString(r \div Pow10(decimals))
        \o (IF decimals > 0 THEN <<".">> \o ZeroPadded(r % Pow10(decimals), decimals)
            ELSE <<>>)

RECURSIVE rstrip(_, _)
\* str.rstrip(ch)
rstrip(str, ch) ==
    IF str # <<>> /\ str[Len(str)] = ch THEN rstrip(SubSeq(str, 1, Len(str) - 1), ch)
    ELSE str

\* TradeExecutor._format_size(size, sz_decimals), the string it returns:
\* "0" for a size of 0, else round(size, sz_decimals) written with sz_decimals
\* decimals, .rstrip('0').rstrip('.')
format_size_string(size, sz_decimals) ==
    IF size.n = 0 THEN <<"0">>
    ELSE LET rounded == RoundHalfEven(size.n * Pow10(sz_decimals), size.d)
         IN  rstrip(rstrip(FixedPoint(rounded, sz_decimals), "0"), ".")

\* trailing zeros go only from a string that has a decimal point
StripFraction(str) ==
    IF \E i \in DOMAIN str : str[i] = "." THEN rstrip(rstrip(str, "0"), ".") ELSE str

\* f"{x:.5g}" for x > 0: x rounded to 5 significant figures, written in fixed
\* notation without trailing zeros when its exponent is in -4..4 and in
\* scientific notation (d.dddde+XX) otherwise
format_5g_string(x) ==
    LET \* the decimal exponent of the fraction n/d > 0: 10^e <= n/d < 10^(e+1)
        RECURSIVE Exp10(_, _)
        Exp10(n, d) == IF n >= d THEN Digits(n \div d) - 1 ELSE Exp10(10 * n, d) - 1
        e0 == Exp10(x.n, x.d)
        g  == IF e0 <= 4 THEN GCD(Pow10(4 - e0), x.d) ELSE 1
        m0 == IF e0 <= 4 THEN RoundHalfEven(x.n * (Pow10(4 - e0) \div g), x.d \div g)
              ELSE RoundHalfEven(x.n, x.d * Pow10(e0 - 4))
        m  == IF m0 = 100000 THEN 10000 ELSE m0
        e  == IF m0 = 100000 THEN e0 + 1 ELSE e0
    IN  IF e < -4 \/ e >= 5
        THEN StripFraction(FixedPoint(m, 4))
                \o <<"e", IF e < 0 THEN "-" ELSE "+">> \o ZeroPadded(Abs(e), 2)
        ELSE StripFraction(FixedPoint(m, 4 - e))

\* str(float(x)) for a decimal fraction x with 10^-4 <= x < 10^16: the shortest
\* decimal that reads back as x, with at least one decimal
str_float(x) ==
    LET \* the number of decimals of a decimal fraction in lowest terms with
        \* denominator d: the least k >= from with d | 10^k
        RECURSIVE DecimalPlaces(_, _)
        DecimalPlaces(d, from) ==
            IF Pow10(from) % d = 0 THEN from ELSE DecimalPlaces(d, from + 1)
        k == DecimalPlaces(x.d, 0)
    IN  IF k = 0 THEN DecimalString(x.n \div x.d) \o <<".", "0">>
        ELSE FixedPoint(x.n * (Pow10(k) \div x.d), k)

\* TradeExecutor._calculate_slippage_price, the string it returns (slippage in percent)
calculate_slippage_price_string(price, is_buy, slippage) ==
    format_5g_string(Rat(price.n * (IF is_buy THEN 100 + slippage ELSE 100 - slippage),
                         price.d * 100))

\* the calls of _format_size: the sizes are eighths up to 2 and whole sizes up
\* to 10^6 (a float holds each of them exactly), szDecimals is 0..8, and the
\* arithmetic of the call stays within 32 bits
FormatSizeCalls ==
    LET sizes == {Rat(n, 8) : n \in 0..16}
                 \cup {RInt(k) : k \in {5, 10, 20, 25, 100, 120, 1000, 1000000}}
                 \cup {Rat(k, 2) : k \in {21, 201}}
    IN  {c \in sizes \X (0..8) : c[1].n <= 2147483647 \div Pow10(c[2])}

\* the calls that write one of the price strings of the order actions, with
\* the prices an order operation is called with (mid price, limit price,
\* trigger price), in USD; is_market is for the "p" of a trigger order,
\* limit_price is then the price itself where one is given
FormatPriceCalls ==
    [fn : {"market_p", "limit_p", "trigger_p", "trigger_px"},
     x : {RInt(k) : k \in {2, 3, 50, 1234, 12340, 97000, 100000, 123456}}
         \cup {Rat(5, 10), Rat(25, 10), Rat(12345678, 1000), Rat(31416, 10000),
               Rat(1234567, 100), Rat(2718, 100000)},
     is_buy : BOOLEAN, is_market : BOOLEAN]

\* execute_market_order: "p" is the mid price with the default slippage of 3%
MarketOrderPrice ==
    /\ fmt.pc = "called"
    /\ fmt.fn = "market_p"
    /\ fmt' = [fmt EXCEPT !.pc = "returned",
                          !.out = calculate_slippage_price_string(fmt.x, fmt.is_buy, 3)]
    /\ UNCHANGED <<call, stop, settings, tgt, fol, mainPc, mainIdx, your_actual_balance,
                   portfolio_ratio, current_state, last_positions, last_orders, frame,
                   monPc, tasks, is_paused, nFrames, evCount, lastDisp, obs>>

\* execute_limit_order: "p": str(float(price))
LimitOrderPrice ==
    /\ fmt.pc = "called"
    /\ fmt.fn = "limit_p"
    /\ fmt' = [fmt EXCEPT !.pc = "returned", !.out = str_float(fmt.x)]
    /\ UNCHANGED <<call, stop, settings, tgt, fol, mainPc, mainIdx, your_actual_balance,
                   portfolio_ratio, current_state, last_positions, last_orders, frame,
                   monPc, tasks, is_paused, nFrames, evCount, lastDisp, obs>>

\* execute_trigger_order: "p" is the trigger price with a slippage of 5% when
\* is_market, else str(limit_price)
TriggerOrderPrice ==
    /\ fmt.pc = "called"
    /\ fmt.fn = "trigger_p"
    /\ fmt' = [fmt EXCEPT !.pc = "returned",
                          !.out = IF fmt.is_market
                                  THEN calculate_slippage_price_string(
                                           fmt.x, fmt.is_buy, TriggerSlippage)
                                  ELSE str_float(fmt.x)]
    /\ UNCHANGED <<call, stop, settings, tgt, fol, mainPc, mainIdx, your_actual_balance,
                   portfolio_ratio, current_state, last_positions, last_orders, frame,
                   monPc, tasks, is_paused, nFrames, evCount, lastDisp, obs>>

\* execute_trigger_order: "triggerPx": f"{trigger_price:.5g}"
TriggerPx ==
    /\ fmt.pc = "called"
    /\ fmt.fn = "trigger_px"
    /\ fmt' = [fmt EXCEPT !.pc = "returned", !.out = format_5g_string(fmt.x)]
    /\ UNCHANGED <<call, stop, settings, tgt, fol, mainPc, mainIdx, your_actual_balance,
                   portfolio_ratio, current_state, last_positions, last_orders, frame,
                   monPc, tasks, is_paused, nFrames, evCount, lastDisp, obs>>

\* _format_size returns
FormatSize ==
    /\ fmt.pc = "called"
    /\ fmt.fn = "format_size"
    /\ fmt' = [fmt EXCEPT !.pc = "returned",
                          !.out = format_size_string(fmt.x, fmt.decimals)]
    /\ UNCHANGED <<call, stop, settings, tgt, fol, mainPc, mainIdx, your_actual_balance,
                   portfolio_ratio, current_state, last_positions, last_orders, frame,
                   monPc, tasks, is_paused, nFrames, evCount, lastDisp, obs>>

\* a live executor, one of its formatters called
InitFormat ==
    /\ settings = DefaultSettings
    /\ tgt = InitTarget
    /\ fol = [pos |-> [s \in Symbols |-> 0], balance |-> Balances.follower, orders |-> 0,
              fee |-> 0]
    /\ mainPc = "balance"
    /\ mainIdx = 1
    /\ your_actual_balance = 0
    /\ portfolio_ratio = Rat(1, 100)
    /\ current_state = NoState
    /\ last_positions = <<>>
    /\ last_orders = <<>>
    /\ frame = NoFrame
    /\ monPc = Idle
    /\ tasks = <<>>
    /\ is_paused = FALSE
    /\ nFrames = 0
    /\ evCount = 0
    /\ lastDisp = [s \in Symbols |-> 0]
    /\ obs = NoObs
    /\ call = NoCall(FALSE)
    /\ stop = NotStopping
    /\ \/ \E c \in FormatSizeCalls :
              fmt = [pc |-> "called", fn |-> "format_size", x |-> c[1], decimals |-> c[2],
                     out |-> <<>>]
       \/ \E c \in FormatPriceCalls :
              fmt = [pc |-> "called", fn |-> c.fn, x |-> c.x, is_buy |-> c.is_buy,
                     is_market |-> c.is_market, out |-> <<>>]

NextFormat ==
    \/ FormatSize
    \/ MarketOrderPrice
    \/ LimitOrderPrice
    \/ TriggerOrderPrice
    \/ TriggerPx

SpecFormat == InitFormat /\ [][NextFormat]_vars

\* ------------------------------------- TradeExecutor, one operation at a time
\* the operations of the executor that change something on the exchange
ExecutorOps == {"market", "limit", "trigger", "close", "cancel", "cancel_all"}

\* the operations called in a row
MaxCalls == 2

\* the leverage an order operation is called with
CallLeverages == {1, 3}

\* the POST raises: connection error or timeout
NetworkError == [http |-> 0, status |-> "", order |-> ""]

\* What the exchange answers to a POST: HTTP 200 with status "ok" and the
\* status of the order ({resting}, {filled}, {error}, or "success" for an
\* action that is not an order), HTTP 200 with status "err", HTTP 500.
Answers ==
    { [http |-> 200, status |-> "ok", order |-> o] :
          o \in {"resting", "filled", "error", "success"} }
    \cup { [http |-> 200, status |-> "err", order |-> ""],
           [http |-> 500, status |-> "", order |-> ""] }

\* the answers to an action of the operation
AnswersTo(op) ==
    { a \in Answers :
         a.order # "" =>
            IF op \in {"market", "limit", "trigger", "close"}
            THEN a.order \in {"resting", "filled", "error"}
            ELSE a.order \in {"success", "error"} }

\* what execute_market_order returns for an answer
market_result(a) ==
    IF a.http # 200 THEN "None"
    ELSE IF a.status = "ok"
    THEN (IF a.order = "error" THEN "None"
          ELSE IF a.order = "resting" THEN "oid"
          ELSE IF a.order = "filled" THEN "filled"
          ELSE "executed")
    ELSE "None"

\* what execute_limit_order returns: statuses[0].get("resting", {}).get("oid")
limit_result(a) ==
    IF a.http # 200 THEN "None"
    ELSE IF a.status = "ok" THEN (IF a.order = "resting" THEN "oid" ELSE "None")
    ELSE "None"

\* what execute_trigger_order returns; with a status that is neither {resting}
\* nor {error} the function falls off its end
trigger_result(a) ==
    IF a.http # 200 THEN "None"
    ELSE IF a.status = "ok" THEN (IF a.order = "resting" THEN "oid" ELSE "None")
    ELSE "None"

\* what cancel_order returns
cancel_result(a) == IF a.http = 200 THEN "True" ELSE "False"

\* what cancel_all_orders returns: the number of statuses in the answer
cancel_all_result(a) ==
    IF a.http = 200 THEN (IF a.order # "" THEN "1" ELSE "0") ELSE "0"

\* what _update_leverage returns
update_leverage_result(a) == IF a.http = 200 THEN "True" ELSE "False"

\* what the operation returns for the answer to its POST
OperationResult(op, a) ==
    CASE op \in {"market", "close"} -> market_result(a)
      [] op = "limit"               -> limit_result(a)
      [] op = "trigger"             -> trigger_result(a)
      [] op = "cancel"              -> cancel_result(a)
      [] op = "cancel_all"          -> cancel_all_result(a)

\* what the operation returns in dry-run mode
SimulatedResult(op) ==
    CASE op \in {"market", "limit"} -> "sim_order_id"
      [] op = "trigger"             -> "dry_run_tp_sl_id"
      [] op = "close"               -> "dry_run_close_id"
      [] op = "cancel"              -> "True"
      [] op = "cancel_all"          -> "0"

\* a variant in which close_position does not look at dry_run
EntryCloseNotSimulated(dry_run, op, leverage) ==
    IF dry_run /\ op # "close" THEN "done"
    ELSE ExecEntry([kind |-> op, lev |-> leverage])

\* the first thing an operation does: "if self.dry_run: return ..." comes
\* before anything else; close_position calls execute_market_order with the
\* default leverage
ExecutorEntry(dry_run, op, leverage) ==
    IF dry_run THEN "done"
    ELSE ExecEntry([kind |-> op, lev |-> leverage])

\* the action each operation builds, signs and POSTs: its type, the names and
\* the types of the fields of the action (of its one order or cancel where it
\* has one), the grouping and the kind of the order type "t"
action(op) ==
    CASE op \in {"market", "close", "limit"} ->
            [type |-> "order", list |-> "orders",
             fields |-> [a |-> "int", b |-> "bool", p |-> "str", s |-> "str",
                         r |-> "bool", t |-> "limit"],
             grouping |-> "na"]
      [] op = "trigger" ->
            [type |-> "order", list |-> "orders",
             fields |-> [a |-> "int", b |-> "bool", p |-> "str", s |-> "str",
                         r |-> "bool", t |-> "trigger"],
             grouping |-> "normalTpsl"]
      [] op = "cancel" ->
            [type |-> "cancel", list |-> "cancels",
             fields |-> [a |-> "int", o |-> "int"], grouping |-> ""]
      [] op = "cancel_all" ->
            [type |-> "cancelByCloid", list |-> "cancels",
             fields |-> [asset |-> "str", cloid |-> "null"], grouping |-> ""]
      [] op = "update_leverage" ->
            [type |-> "updateLeverage", list |-> "",
             fields |-> [asset |-> "int", isCross |-> "bool", leverage |-> "int"],
             grouping |-> ""]

\* str.lower() of an address
lower(address) ==
    IF address \in {"0xAbCd", "0xABCD"} THEN "0xabcd" ELSE address

\* Account.from_key(private_key).address once the 0x prefix has been added;
\* "raised" when the string is no key
from_key(private_key) ==
    CASE private_key \in {"0xkey", "key"} -> "0xAbCd"
      [] private_key = "0xother" -> "0x1234"
      [] OTHER -> "raised"

\* a variant that accepts whatever account the key gives
account_unvalidated(private_key, wallet_address, dry_run) ==
    IF private_key # "" /\ ~dry_run
    THEN from_key(private_key)
    ELSE IF ~dry_run THEN "raised" ELSE "None"

\* TradeExecutor.__init__, what becomes of self.account: the account of the
\* key in live mode when its address is the configured one, None in dry-run
\* mode, and "raised" when the constructor raises (no key in live mode, no key
\* in the string, another address, or no configured address to compare with)
account(private_key, wallet_address, dry_run) ==
    IF private_key # "" /\ ~dry_run
    THEN IF from_key(private_key) = "raised" \/ wallet_address = "None" THEN "raised"
         ELSE IF lower(from_key(private_key)) # lower(wallet_address) THEN "raised"
         ELSE from_key(private_key)
    ELSE IF ~dry_run THEN "raised" ELSE "None"

\* TradeExecutor(wallet_address, private_key, dry_run=...)
ExecutorInit ==
    /\ call.pc = "new"
    /\ LET acct == account(call.private_key, call.wallet_address, call.dry_run)
       IN  call' = [call EXCEPT !.pc = IF acct = "raised" THEN "raised" ELSE "idle",
                                !.account = IF acct = "raised" THEN "None" ELSE acct]
    /\ UNCHANGED <<fmt, stop, settings, tgt, fol, mainPc, mainIdx, your_actual_balance,
                   portfolio_ratio, current_state, last_positions, last_orders, frame,
                   monPc, tasks, is_paused, nFrames, evCount, lastDisp, obs>>

\* an operation of the executor is called
ExecutorCall ==
    /\ call.pc = "idle"
    /\ call.calls < MaxCalls
    /\ \E op \in ExecutorOps, lv \in CallLeverages :
          LET leverage == IF op \in {"market", "limit"} THEN lv ELSE 1
              entry    == ExecutorEntry(call.dry_run, op, leverage)
          IN  call' = [call EXCEPT !.op = op, !.leverage = leverage, !.pc = entry,
                                   !.calls = @ + 1, !.attempts = 0,
                                   !.answer = NoAnswer, !.lev_answer = NoAnswer,
                                   !.lev_result = "",
                                   !.result = IF entry = "done" THEN SimulatedResult(op)
                                              ELSE ""]
    /\ UNCHANGED <<fmt, stop, settings, tgt, fol, mainPc, mainIdx, your_actual_balance,
                   portfolio_ratio, current_state, last_positions, last_orders, frame,
                   monPc, tasks, is_paused, nFrames, evCount, lastDisp, obs>>

\* _update_leverage signs the updateLeverage action and POSTs it once
ExecutorLeverage ==
    /\ call.pc = "lev"
    /\ \E a \in AnswersTo("update_leverage") \cup {NetworkError} :
          call' = [call EXCEPT !.signed = @ + 1, !.posted = @ + 1, !.lev_answer = a,
                               !.lev_result = update_leverage_result(a),
                               !.pc = "post"]
    /\ UNCHANGED <<fmt, stop, settings, tgt, fol, mainPc, mainIdx, your_actual_balance,
                   portfolio_ratio, current_state, last_positions, last_orders, frame,
                   monPc, tasks, is_paused, nFrames, evCount, lastDisp, obs>>

\* the operation signs its action, POSTs it once and returns what it makes of
\* the answer; an exception is caught and None (False, 0) returned
ExecutorPost ==
    /\ call.pc = "post"
    /\ \E a \in AnswersTo(call.op) \cup {NetworkError} :
          call' = [call EXCEPT !.signed = @ + 1, !.posted = @ + 1,
                               !.attempts = @ + 1, !.answer = a,
                               !.result = OperationResult(call.op, a),
                               !.pc = "done"]
    /\ UNCHANGED <<fmt, stop, settings, tgt, fol, mainPc, mainIdx, your_actual_balance,
                   portfolio_ratio, current_state, last_positions, last_orders, frame,
                   monPc, tasks, is_paused, nFrames, evCount, lastDisp, obs>>

\* the caller has the result
ExecutorReturn ==
    /\ call.pc = "done"
    /\ call' = [call EXCEPT !.pc = "idle"]
    /\ UNCHANGED <<fmt, stop, settings, tgt, fol, mainPc, mainIdx, your_actual_balance,
                   portfolio_ratio, current_state, last_positions, last_orders, frame,
                   monPc, tasks, is_paused, nFrames, evCount, lastDisp, obs>>

\* an executor constructed in dry-run mode or in live mode, before any call
InitExecutor ==
    /\ settings = DefaultSettings
    /\ tgt = InitTarget
    /\ fol = [pos |-> [s \in Symbols |-> 0], balance |-> Balances.follower, orders |-> 0, fee |-> 0]
    /\ mainPc = "balance"
    /\ mainIdx = 1
    /\ your_actual_balance = 0
    /\ portfolio_ratio = Rat(1, 100)
    /\ current_state = NoState
    /\ last_positions = <<>>
    /\ last_orders = <<>>
    /\ frame = NoFrame
    /\ monPc = Idle
    /\ tasks = <<>>
    /\ is_paused = FALSE
    /\ nFrames = 0
    /\ evCount = 0
    /\ lastDisp = [s \in Symbols |-> 0]
    /\ obs = NoObs
    /\ \E dry \in BOOLEAN : call = NoCall(dry)
    /\ stop = NotStopping
    /\ fmt = [pc |-> "idle"]

\* the executor is about to be constructed, in either mode, with any key and
\* any address
InitConstruct ==
    /\ settings = DefaultSettings
    /\ tgt = InitTarget
    /\ fol = [pos |-> [s \in Symbols |-> 0], balance |-> Balances.follower, orders |-> 0,
              fee |-> 0]
    /\ mainPc = "balance"
    /\ mainIdx = 1
    /\ your_actual_balance = 0
    /\ portfolio_ratio = Rat(1, 100)
    /\ current_state = NoState
    /\ last_positions = <<>>
    /\ last_orders = <<>>
    /\ frame = NoFrame
    /\ monPc = Idle
    /\ tasks = <<>>
    /\ is_paused = FALSE
    /\ nFrames = 0
    /\ evCount = 0
    /\ lastDisp = [s \in Symbols |-> 0]
    /\ obs = NoObs
    \* the private key is none (None or ""), the follower's with or without
    \* the 0x prefix, the key of another account, or a string that is no key;
    \* the wallet address is the follower's in lower or in upper case,
    \* another account's, or none
    /\ \E dry \in BOOLEAN,
          k \in {"", "0xkey", "key", "0xother", "malformed"},
          w \in {"0xabcd", "0xABCD", "0x9999", "None"} :
           call = [NoCall(dry) EXCEPT !.pc = "new", !.private_key = k,
                                      !.wallet_address = w, !.account = "None"]
    /\ stop = NotStopping
    /\ fmt = [pc |-> "idle"]

\* the Telegram bot calls handle_stop(close_positions)
StopRequested ==
    /\ mainPc = "monitoring"
    /\ stop.pc = "running"
    /\ \E close_positions \in BOOLEAN :
          stop' = [stop EXCEPT !.pc = "cancel_all", !.close_positions = close_positions]
    /\ UNCHANGED <<fmt, call, settings, tgt, fol, mainPc, mainIdx, your_actual_balance,
                   portfolio_ratio, current_state, last_positions, last_orders, frame,
                   monPc, tasks, is_paused, nFrames, evCount, lastDisp, obs>>

\* await executor.cancel_all_orders(): it returns a count whatever happens
StopCancelAll ==
    /\ stop.pc = "cancel_all"
    /\ stop' = [stop EXCEPT !.pc = IF stop.close_positions /\ current_state.some
                                   THEN "close" ELSE "stop_monitoring",
                            !.idx = 1]
    /\ UNCHANGED <<fmt, call, settings, tgt, fol, mainPc, mainIdx, your_actual_balance,
                   portfolio_ratio, current_state, last_positions, last_orders, frame,
                   monPc, tasks, is_paused, nFrames, evCount, lastDisp, obs>>

\* "for pos in monitor.current_state.positions: await
\* executor.close_position(pos.symbol)": close_position has the required
\* parameters size and side, so the call raises TypeError, which nothing in
\* handle_stop catches
StopClosePositions ==
    /\ stop.pc = "close"
    /\ stop' = [stop EXCEPT !.pc = IF Len(current_state.positions) >= stop.idx
                                   THEN "raised" ELSE "stop_monitoring"]
    /\ UNCHANGED <<fmt, call, settings, tgt, fol, mainPc, mainIdx, your_actual_balance,
                   portfolio_ratio, current_state, last_positions, last_orders, frame,
                   monPc, tasks, is_paused, nFrames, evCount, lastDisp, obs>>

\* await monitor.stop_monitoring()
StopMonitoring ==
    /\ stop.pc = "stop_monitoring"
    /\ stop' = [stop EXCEPT !.pc = "stop_telegram", !.monitor_stopped = TRUE]
    /\ UNCHANGED <<fmt, call, settings, tgt, fol, mainPc, mainIdx, your_actual_balance,
                   portfolio_ratio, current_state, last_positions, last_orders, frame,
                   monPc, tasks, is_paused, nFrames, evCount, lastDisp, obs>>

\* await telegram_bot.stop(), then sys.exit(0)
StopExit ==
    /\ stop.pc = "stop_telegram"
    /\ stop' = [stop EXCEPT !.pc = "exited", !.exit_code = 0]
    /\ UNCHANGED <<fmt, call, settings, tgt, fol, mainPc, mainIdx, your_actual_balance,
                   portfolio_ratio, current_state, last_positions, last_orders, frame,
                   monPc, tasks, is_paused, nFrames, evCount, lastDisp, obs>>

\* the steps of handle_stop once it has been called
StopStep == StopCancelAll \/ StopClosePositions \/ StopMonitoring \/ StopExit

\* ------------------------------------------------------------------- Next
Next ==
    \/ MainFetchBalance
    \/ MainFetchState
    \/ MainCopyPosition
    \/ MainCopyOrder
    \/ MainStartTelegram
    \/ MainFetchState2
    \/ MainCopyOrder2
    \/ MainStartMonitoring
    \/ handle_pause
    \/ handle_resume
    \/ TargetOpens
    \/ TargetCloses
    \/ TargetPlacesOrder
    \/ Redeliver
    \/ FrameHandled
    \/ HandleFills
    \/ HandlePositions
    \/ HandleOrders
    \/ \E i \in DOMAIN tasks : FillStart(i)
    \/ \E i \in DOMAIN tasks : FillFetch(i)
    \/ \E i \in DOMAIN tasks : NewPositionStart(i)
    \/ \E i \in DOMAIN tasks : NewPositionPrice(i)
    \/ \E i \in DOMAIN tasks : PositionClose(i)
    \/ \E i \in DOMAIN tasks : PositionUpdate(i)
    \/ \E i \in DOMAIN tasks : NewOrderStart(i)
    \/ \E i \in DOMAIN tasks : NewOrderFetch(i)
    \/ \E i \in DOMAIN tasks : ExecLeverage(i)
    \/ \E i \in DOMAIN tasks : ExecPost(i)

Spec == Init /\ [][Next]_vars

\* the same program under the configurations with limits
SpecLimits == InitLimits /\ [][Next]_vars

\* the monitor and the callbacks once monitoring has started
NextStream ==
    \/ TargetOpens
    \/ TargetCloses
    \/ TargetPlacesOrder
    \/ TargetFlips
    \/ TargetCancelsOrder
    \/ TargetClosesAndOpens
    \/ Redeliver
    \/ FrameHandled
    \/ HandleFills
    \/ HandlePositions
    \/ HandleOrders
    \/ \E i \in DOMAIN tasks : FillStart(i)
    \/ \E i \in DOMAIN tasks : FillFetch(i)
    \/ \E i \in DOMAIN tasks : NewPositionStart(i)
    \/ \E i \in DOMAIN tasks : NewPositionPrice(i)
    \/ \E i \in DOMAIN tasks : PositionClose(i)
    \/ \E i \in DOMAIN tasks : PositionUpdate(i)
    \/ \E i \in DOMAIN tasks : NewOrderStart(i)
    \/ \E i \in DOMAIN tasks : NewOrderFetch(i)
    \/ \E i \in DOMAIN tasks : ExecLeverage(i)
    \/ \E i \in DOMAIN tasks : ExecPost(i)

SpecStream == InitStream /\ [][NextStream]_vars

\* the stream from its second frame on
SpecSecondFrame == InitSecondFrame /\ [][NextStream]_vars

\* the stream with the fills of every direction and the frames that carry
\* two position records
NextDirections ==
    \/ NextStream
    \/ TargetReverses
    \/ TargetSwitches

SpecDirections == InitStream /\ [][NextDirections]_vars

\* the stream on an exchange that charges for fills
SpecFees == InitFees /\ [][NextStream]_vars

\* the operations of the executor, called one after the other
NextExecutor ==
    \/ ExecutorCall
    \/ ExecutorLeverage
    \/ ExecutorPost
    \/ ExecutorReturn

SpecExecutor == InitExecutor /\ [][NextExecutor]_vars

\* the executor from its construction on
NextConstruct ==
    \/ ExecutorInit
    \/ ExecutorCall
    \/ ExecutorLeverage
    \/ ExecutorPost
    \/ ExecutorReturn

SpecConstruct == InitConstruct /\ [][NextConstruct]_vars

\* the process is alive: the monitor and the callbacks go on
Alive == stop.pc # "exited" /\ NextStream

\* monitoring, with a stop request at any moment
NextStop ==
    \/ Alive
    \/ StopRequested
    \/ StopCancelAll
    \/ StopClosePositions
    \/ StopMonitoring
    \/ StopExit

\* the event loop runs the coroutine of handle_stop whenever it can go on
SpecStop == InitStream /\ [][NextStop]_vars /\ WF_vars(StopStep)

\* ------------------------------------------------------------- properties
IsSub == obs.type = "sub"

\* a submission that opens or adds to a position
OpenSub ==
    /\ IsSub
    /\ \/ obs.origin \in {"newpos", "startup_pos"}
       \/ obs.origin = "fill" /\ ~obs.is_closing

\* a submission that closes or reduces a position
CloseSub == IsSub /\ (obs.is_closing \/ obs.reduce_only)

Clamp(x, lo, hi) == IF x < lo THEN lo ELSE IF x > hi THEN hi ELSE x

\* C1: no over-close.  Every submission that closes or reduces (the order copied
\* from a Close fill, every reduce-only TP/SL trigger order) has a size on the
\* wire that is at most the follower's position on the symbol when it is submitted.
C1_NoOverClose == CloseSub => obs.wire <= obs.folBefore

\* C2: ordering.  A submission for a symbol comes from an event that is later
\* than the event of every earlier submission for that symbol, no handler of an
\* earlier event of the symbol is still running when it is made, no two
\* handlers for one symbol are in flight, and the next frame is taken only when
\* every handler has returned.
C2_Ordering ==
    /\ IsSub /\ obs.ev > 0 => obs.prevEv < obs.ev /\ ~obs.olderRunning
    /\ \A i, j \in DOMAIN tasks : i # j => tasks[i].sym # tasks[j].sym
    /\ \A i \in DOMAIN tasks : tasks[i].ev > 0 => lastDisp[tasks[i].sym] < tasks[i].ev
    /\ mainPc = "monitoring" /\ monPc = Idle => tasks = <<>>

\* C2 happens: a second submission for a symbol within a frame, from a later event
C2_Witness == IsSub /\ obs.prevEv > 0 /\ obs.ev > obs.prevEv

\* C3: the pause flag gates dispatch.  No open, limit-order copy or trigger-order
\* copy is submitted at a moment when is_paused is set.
C3_PauseGatesDispatch ==
    IsSub /\ ~(obs.origin = "fill" /\ obs.is_closing) => ~obs.paused

\* C4: closes still execute while paused.  The handler of a Close fill for a
\* symbol on which the follower holds a position never returns on the pause
\* check without a submission.
C4_ClosesWhilePaused ==
    ~ /\ obs.type = "done"
      /\ obs.origin = "fill"
      /\ IsClose(obs.d.dir)
      /\ obs.reason = "paused"
      /\ obs.folHeld > 0

\* C5: proportionality.  For every open the follower submits, the notional
\* submitted is within 10% of (size the target added x price) x
\* (follower balance / target balance).
C5_Proportionality ==
    OpenSub =>
        LET expected_n == obs.delta * obs.px * fol.balance
            expected_d == tgt.balance
            follower   == obs.wire * obs.px
        IN  10 * Abs(follower * expected_d - expected_n) <= expected_n

\* C6: close sizing.  The order copied from a Close fill of size c with
\* startPosition p is submitted only when the follower holds a position f > 0
\* on the symbol, and its size is min(f, f x c / |p|).
C6_CloseSizing ==
    IsSub /\ obs.origin = "fill" /\ obs.is_closing =>
        LET f == obs.folBefore
            c == obs.d.sz
            p == Abs(obs.d.startPosition)
        IN  /\ f > 0
            /\ p # 0
            /\ obs.size = (IF f * c <= f * p THEN Rat(f * c, p) ELSE RInt(f))

\* C6 happens: a partial close is copied while the follower holds a position
C6_Witness ==
    /\ IsSub /\ obs.origin = "fill" /\ obs.is_closing
    /\ obs.d.sz < Abs(obs.d.startPosition)
    /\ obs.folBefore > 0

\* C7: a position-closed event for a symbol on which the follower holds a
\* position leads to a reduce-only close: its handler never returns without
\* a submission.
C7_PositionClosedCloses ==
    ~ /\ obs.type = "done"
      /\ obs.origin = "posclose"
      /\ obs.folHeld > 0

\* C8: min notional.  No order is submitted with size x price < $10.
C8_MinNotional ==
    IsSub => ~ (obs.wire * obs.px < MIN_ORDER_VALUE)

\* C9: leverage bounds.  The leverage handed to the gateway with an order that
\* opens or adds to a position is an integer in [1, maximum of the asset] and
\* equals clamp(round(l), 1, maximum), where l is the leverage of the target's
\* position on that symbol (l is kept in tenths; a tie may round either way).
C9_LeverageBounds ==
    OpenSub /\ obs.kind \in {"market", "limit"} =>
        LET m == get_max_leverage_for_asset(obs.sym)
            l == obs.targetLev
        IN  /\ obs.leverage \in 1..m
            /\ \E r \in (l \div 10)..(l \div 10 + 1) :
                  /\ Abs(10 * r - l) <= 5
                  /\ obs.leverage = Clamp(r, 1, m)

\* C10: idempotent snapshot refresh.  While the positions and orders of a frame
\* are handled a second time, no callback is invoked.
C10_IdempotentRefresh == frame.redelivery => evCount = frame.ev0

\* C11: blocklist.  For a fill, a position record or an order whose symbol is in
\* blocked_assets no callback is invoked and nothing is submitted: no handler in
\* flight and no submission is for a blocked symbol.
C11_Blocklist ==
    /\ \A i \in DOMAIN tasks : tasks[i].sym \notin blocked_assets
    /\ IsSub => obs.sym \notin blocked_assets

\* the total size of the fills of a frame that carry the order id
RECURSIVE FilledSize(_, _)
FilledSize(fills, oid) ==
    IF fills = <<>> THEN 0
    ELSE (IF Head(fills).oid = oid THEN Head(fills).sz ELSE 0) + FilledSize(Tail(fills), oid)

\* C12: partial fills of one order that arrive in one frame are aggregated.  The
\* fill callback is invoked with the total size filled for the order id in the
\* frame, and it is not invoked for a later fill of an order id that an earlier
\* fill of the frame carries.
C12_FillAggregation ==
    \A i \in DOMAIN tasks :
        tasks[i].origin = "fill" =>
            /\ tasks[i].d.sz = FilledSize(frame.fills, tasks[i].d.oid)
            /\ ~ \E k \in 2..Len(frame.fills) :
                    /\ frame.fills[k] = tasks[i].d
                    /\ \E j \in 1..(k - 1) : frame.fills[j].oid = tasks[i].d.oid

\* a trigger order submitted for the follower
TriggerSub == IsSub /\ obs.kind = "trigger"

\* C13: trigger sizing.  A TP/SL order of size s placed while the target holds a
\* position T > 0 is copied, when the follower holds F > 0, with size F x s / T;
\* with no target position the size is F; with F = 0 nothing is submitted.
C13_TriggerSizing ==
    TriggerSub =>
        LET F == obs.folBefore
            T == obs.targetPos
        IN  /\ F > 0
            /\ obs.size = (IF T > 0 THEN Rat(F * obs.d.sz, T) ELSE RInt(F))

C15_TriggerReduceOnlySlippage ==
    TriggerSub =>
        LET trigger == obs.d.triggerPx
            moved   == Rat(trigger * (IF obs.side = "BUY" THEN 105 ELSE 95), 100)
            limit   == obs.limit_px
        IN  /\ obs.reduce_only
            /\ 20000 * Abs(limit.n * moved.d - moved.n * limit.d) <= moved.n * limit.d
            /\ IF obs.side = "BUY" THEN RLess(RInt(trigger), limit)
               ELSE RLess(limit, RInt(trigger))

\* C15 happens: a buy trigger order whose moved price needs rounding
C15_Witness ==
    /\ TriggerSub
    /\ obs.side = "BUY"
    /\ obs.limit_px # Rat(obs.d.triggerPx * 105, 100)

\* C16: every submission that copies a Close fill is reduce-only and has the side
\* opposite to the follower's own position on the symbol when it is submitted:
\* SELL when the follower is long, BUY when the follower is short.
C16_CloseSide ==
    IsSub /\ obs.origin = "fill" /\ obs.is_closing =>
        /\ obs.reduce_only
        /\ obs.folSigned > 0 => obs.side = "SELL"
        /\ obs.folSigned < 0 => obs.side = "BUY"

\* C17: equity cap.  With max_account_equity configured, once the follower's
\* equity has reached it the bot is paused before any further open: no open
\* copied from a stream event (a new position record or an Open fill) is
\* submitted while the follower's equity is at or above the cap.
C17_EquityCap ==
    /\ IsSub
    /\ obs.origin \in {"newpos", "fill"}
    /\ ~obs.is_closing
    /\ settings.max_account_equity # -1
    => fol.balance < settings.max_account_equity

\* the number of symbols on which the follower holds a position
FollowerOpenTrades == Cardinality({s \in Symbols : fol.pos[s] # 0})

\* C18: max_open_trades and max_open_orders are enforced: with a limit
\* configured, the follower never holds more positions than max_open_trades and
\* never has more resting orders than max_open_orders.
C18_OpenLimits ==
    /\ max_open_trades # -1 => FollowerOpenTrades <= max_open_trades
    /\ max_open_orders # -1 => fol.orders <= max_open_orders

\* C19: max_position_size and max_total_exposure are enforced after sizing: no
\* open is submitted with a size above max_position_size, and no open is
\* submitted that brings the follower's exposure, summed across its positions,
\* above max_total_exposure.
C19_SizeCaps ==
    OpenSub =>
        /\ obs.wire <= max_position_size
        /\ obs.exposure + obs.wire <= max_total_exposure

\* an open copied from an event of the stream
StreamOpenSub == IsSub /\ obs.origin \in {"newpos", "fill"} /\ ~obs.is_closing

\* C20: entry-quality gate.  No open copied from a new position record, a
\* position increase or an Open fill is submitted when the mid price deviates
\* from the event's price by more than min_entry_quality_pct percent.
C20_EntryQuality ==
    StreamOpenSub =>
        Abs(obs.mid - obs.px) * 100 <= min_entry_quality_pct * obs.px

\* ---------------------------------------------- properties of the monitor
\* the step in which _handle_positions handles the record it is at
PositionRecordHandled ==
    /\ monPc.phase = "positions"
    /\ monPc.i <= Len(frame.positions)
    /\ monPc' # monPc

\* the record _handle_positions is at, and the position the prior snapshot
\* holds for its symbol (<<>> when it holds none)
RecordAt == frame.positions[monPc.i]

PriorOf(rec) == FindPosition(last_positions, rec.coin)

Range(seq) == {seq[k] : k \in DOMAIN seq}

\* the callbacks invoked in a step, in the order of their invocation
EmittedOrigins ==
    [k \in 1..(Len(tasks') - Len(tasks)) |-> tasks'[Len(tasks) + k].origin]

\* the record reports a position on the side opposite to the prior one
IsFlip(rec) ==
    /\ PriorOf(rec) # <<>>
    /\ rec.szi # 0
    /\ (PriorOf(rec)[1].side = "LONG") # (rec.szi > 0)

\* C21: a position record whose szi has the opposite sign of the prior position
\* of the symbol, whatever its magnitude, is emitted as position-closed followed
\* by position-opened.
C21_SignFlip ==
    [][ PositionRecordHandled /\ RecordAt.coin \notin blocked_assets /\ IsFlip(RecordAt)
        => EmittedOrigins = <<"posclose", "newpos">> ]_vars

\* C22: for each position record of a symbol that is not blocked, position-opened
\* is emitted exactly when the symbol is not in the prior snapshot and szi # 0,
\* position-closed exactly when it is in the prior snapshot and szi = 0, and
\* position-increased or position-reduced exactly when the magnitude has changed
\* and the sign has not.
C22_PositionDiffRules ==
    [][ PositionRecordHandled /\ RecordAt.coin \notin blocked_assets
        => LET rec   == RecordAt
               prior == PriorOf(rec)
           IN  /\ ("newpos" \in Range(EmittedOrigins))
                     <=> (prior = <<>> /\ rec.szi # 0)
               /\ ("posclose" \in Range(EmittedOrigins))
                     <=> (prior # <<>> /\ rec.szi = 0)
               /\ ("posupdate" \in Range(EmittedOrigins))
                     <=> (/\ prior # <<>>
                          /\ rec.szi # 0
                          /\ ~IsFlip(rec)
                          /\ Abs(rec.szi) # prior[1].size)
               /\ Len(EmittedOrigins) <= 1 ]_vars

\* C22 for the records that do not reverse a position
C22_SameSignRules ==
    [][ PositionRecordHandled /\ RecordAt.coin \notin blocked_assets /\ ~IsFlip(RecordAt)
        => LET rec   == RecordAt
               prior == PriorOf(rec)
           IN  EmittedOrigins =
                  IF prior = <<>> /\ rec.szi # 0 THEN <<"newpos">>
                  ELSE IF prior # <<>> /\ rec.szi = 0 THEN <<"posclose">>
                  ELSE IF prior # <<>> /\ Abs(rec.szi) # prior[1].size
                  THEN <<"posupdate">>
                  ELSE <<>> ]_vars

\* the step in which _handle_orders handles the record it is at
OrderRecordHandled ==
    /\ monPc.phase = "orders"
    /\ monPc.i <= Len(frame.orders)
    /\ monPc' # monPc

OrderIds(orders) == {orders[k].order_id : k \in DOMAIN orders}

\* the frame carries a fill of the order
HasFillOf(order_id) == \E k \in DOMAIN frame.fills : frame.fills[k].oid = order_id

\* the order-placed half of C23: an order record invokes on_new_order exactly
\* when its orderId is not in the prior snapshot
C23_OrderPlaced ==
    [][ OrderRecordHandled
        => (("order" \in Range(EmittedOrigins))
               <=> frame.orders[monPc.i].oid \notin OrderIds(last_orders)) ]_vars

\* C23: order-placed is emitted exactly when the orderId is unseen in the prior
\* snapshot, and order-canceled is emitted when an orderId of the prior snapshot
\* disappears from the snapshot without a fill of that order.
C23_OrderDiffRules ==
    [][ /\ OrderRecordHandled
           => (("order" \in Range(EmittedOrigins))
                  <=> frame.orders[monPc.i].oid \notin OrderIds(last_orders))
        /\ \A id \in OrderIds(last_orders) \ OrderIds(last_orders') :
              ~HasFillOf(id) => "ordercancel" \in Range(EmittedOrigins) ]_vars

\* the place of a fill in the frame being handled (0 when it is not in it)
FillIndex(fill) ==
    IF \E k \in DOMAIN frame.fills : frame.fills[k] = fill
    THEN CHOOSE k \in DOMAIN frame.fills : frame.fills[k] = fill
    ELSE 0

\* the Open fills of the frame that are copied and whose callback has not been
\* invoked when the callback of the given fill runs
OpenFillsBehind(fill) ==
    {k \in DOMAIN frame.fills : /\ k > FillIndex(fill)
                                /\ IsOpen(frame.fills[k].dir)
                                /\ frame.fills[k].coin \notin blocked_assets}

\* C24: within one frame opens are dispatched before closes: when a frame
\* carries an Open fill and a Close fill, the close is submitted only after the
\* Open fill has been handed to its callback, whatever their order in the frame.
C24_OpensBeforeCloses ==
    IsSub /\ obs.origin = "fill" /\ obs.is_closing /\ FillIndex(obs.d) # 0
        => OpenFillsBehind(obs.d) = {}

\* ---------------------------------------------- properties of the start-up
\* a submission made by main() before monitoring starts: by the copy of the
\* existing positions, by the copy of the existing orders, or by the
\* on_new_order that main() awaits for an existing order
StartupSubmission(o) ==
    /\ o.type = "sub"
    /\ o.origin \in {"startup_pos", "startup_ord"} \/ (o.origin = "order" /\ o.ev = 0)

\* the step submits an order
Submits == obs'.type = "sub" /\ obs' # obs

\* the target order that main() has handed to on_new_order
OrderOfSecondCopy == current_state.orders[mainIdx - 1]

\* the half of C25 about the order of events: every start-up submission is made
\* before monitoring starts, hence before the first frame of the stream
C25_StartupBeforeStream ==
    [][ Submits /\ StartupSubmission(obs')
        => mainPc # "monitoring" /\ nFrames = 0 /\ frame = NoFrame ]_vars

\* C25: the start-up runs once over the snapshot, before the stream starts: each
\* existing target position and each existing target order results in at most
\* one follower submission, and every start-up submission is made before the
\* first frame of the stream is handled.
C25_BootstrapOnce ==
    [][ /\ Submits /\ StartupSubmission(obs')
           => mainPc # "monitoring" /\ nFrames = 0 /\ frame = NoFrame
        /\ Submits /\ mainPc = "copy_ord2" /\ obs.type = "sub"
              /\ obs.origin = "startup_ord"
           => obs.d.order_id # OrderOfSecondCopy.order_id ]_vars

\* --------------------------------------------- properties of the executor
\* the task whose order the step POSTs
PostedTask ==
    tasks[CHOOSE i \in DOMAIN tasks : tasks[i].pc = "post" /\ tasks' = RemoveAt(tasks, i)]

\* C28: for an open with leverage > 1 the leverage update (updateLeverage with
\* isCross = true) is called and has returned before the order is submitted, and
\* the order is submitted whether the update succeeded or failed: the callback
\* goes from the leverage update to the POST of the order whatever the result.
C28_LeverageBeforeOrder ==
    [][ /\ Submits /\ obs'.kind \in {"market", "limit"} /\ obs'.leverage > 1
              /\ ~obs'.is_closing
           => PostedTask.lev_update \in {"ok", "failed"}
        /\ obs'.type = "lev" /\ obs' # obs => obs'.is_cross /\ obs'.leverage > 1
        /\ \A i \in DOMAIN tasks :
              tasks[i].pc = "lev" /\ tasks' # tasks
              => /\ i \in DOMAIN tasks'
                 /\ tasks'[i].pc = "post"
                 /\ tasks'[i].lev_update \in {"ok", "failed"}
                 /\ tasks'[i].intent = tasks[i].intent ]_vars

\* C28: the leverage update of an open with leverage > 1 has failed and the
\* callback stands at the POST of the order
C28_Witness ==
    \E i \in DOMAIN tasks :
        /\ tasks[i].pc = "post"
        /\ tasks[i].lev_update = "failed"
        /\ tasks[i].intent.kind = "market"
        /\ tasks[i].intent.lev > 1
        /\ ~tasks[i].intent.is_closing

\* an operation reports failure by returning None or False
ReportsFailure(result) == result \in {"None", "False"}

\* an operation reports success by returning the order id or the "filled"
\* marker (True for an operation that is not an order)
ReportsSuccess(op, result) ==
    IF op \in {"market", "limit", "trigger", "close"} THEN result \in {"oid", "filled"}
    ELSE result = "True"

\* the reading of an answer that C26 gives
InterpretedAsSpecified(op, a, result) ==
    /\ a.http = 200 /\ (a.status # "ok" \/ a.order = "error") => ReportsFailure(result)
    /\ a.http = 200 /\ a.status = "ok" /\ a.order \in {"resting", "filled"}
       => ReportsSuccess(op, result)

\* C26 for execute_market_order alone
C26_MarketInterpretation ==
    ~call.dry_run /\ call.pc = "done" /\ call.op \in {"market", "close"}
        => InterpretedAsSpecified(call.op, call.answer, call.result)

\* C26: every mutating operation (market, limit, trigger, cancel, updateLeverage)
\* reports failure when the top-level status of the response is not "ok" or the
\* status of the order is {error}, and reports success (an order id or the
\* "filled" marker) when the status of the order is {resting} or {filled}.
C26_ResponseInterpretation ==
    /\ ~call.dry_run /\ call.pc = "done"
          /\ call.op \in {"market", "limit", "trigger", "cancel"}
       => InterpretedAsSpecified(call.op, call.answer, call.result)
    /\ ~call.dry_run /\ call.lev_result # ""
       => InterpretedAsSpecified("update_leverage", call.lev_answer, call.lev_result)

\* the half of C27 about rejections: an answer of the exchange is final, the
\* action is POSTed once
C27_RejectionNotRetried ==
    ~call.dry_run /\ call.pc = "done" /\ call.answer # NetworkError
        => call.attempts = 1

\* C27: a gateway call that fails with a transient network error or a timeout
\* is retried, up to 3 times, before the operation reports failure; an answer
\* in which the exchange rejects the action is not retried.
C27_NetworkErrorRetried ==
    /\ ~call.dry_run /\ call.pc = "done" /\ call.answer = NetworkError
       => call.attempts \in {3, 4}
    /\ ~call.dry_run /\ call.pc = "done" /\ call.answer # NetworkError
       => call.attempts = 1

\* C29: in dry-run mode no action is signed and none is POSTed, whatever
\* operations are called and in whatever order (market, limit, trigger, close,
\* cancel, cancel-all); each of them returns its simulated result.
C29_DryRunNeverPosts ==
    call.dry_run
        => /\ call.signed = 0
           /\ call.posted = 0
           /\ call.pc \in {"idle", "done"}
           /\ call.op # "none" => call.result = SimulatedResult(call.op)

\* C29: in dry-run mode a second operation, close_position, has returned
C29_Witness ==
    /\ call.dry_run
    /\ call.calls = MaxCalls
    /\ call.op = "close"
    /\ call.pc = "done"

\* ------------------------------------------------ properties of the stop
\* C30 when closing the positions was not requested
C30_StopWithoutClosing ==
    (stop.pc # "running" /\ ~stop.close_positions)
        ~> (stop.monitor_stopped /\ stop.exit_code = 0)

\* C30: after a stop request the stream monitor is eventually stopped and the
\* process exits with code 0, both when closing the positions was requested and
\* when it was not.
C30_StopExits ==
    (stop.pc # "running") ~> (stop.monitor_stopped /\ stop.exit_code = 0)

\* ------------------------------------------- properties of the sizing ratio
\* an open copied from the stream has just been submitted
OpenFromStream == IsSub /\ obs.origin \in {"fill", "newpos"} /\ ~obs.is_closing

\* C31: the sizing ratio followerBalance / targetBalance is refreshed from a
\* newly fetched follower balance after each successful follower-side fill:
\* every open copied from the stream is sized with the balance the follower
\* has since its latest fill (your_actual_balance for an open copied from a
\* fill, portfolio_ratio for an open copied from a position record).
C31_RatioRefreshed ==
    OpenFromStream
        => /\ obs.origin = "fill" => your_actual_balance = obs.folBalance
           /\ obs.origin = "newpos"
                 => portfolio_ratio.n * tgt.balance = obs.folBalance * portfolio_ratio.d

\* C31 at start-up: main computes the ratio once from the two balances it has
\* just fetched, and nothing assigns it afterwards
C31_RatioAtStartup ==
    mainPc = "monitoring" /\ your_actual_balance > 0 /\ tgt.balance > 0
        => portfolio_ratio.n * tgt.balance = Balances.follower * portfolio_ratio.d

\* ------------------------------------------- properties of the wire format
\* the actions of the interface: order (limit or trigger order type, grouping
\* "na" or "normalTpsl"), cancel and updateLeverage, with their field names
WireActions ==
    {[type |-> "order", list |-> "orders",
      fields |-> [a |-> "int", b |-> "bool", p |-> "str", s |-> "str",
                  r |-> "bool", t |-> t],
      grouping |-> g] : t \in {"limit", "trigger"}, g \in {"na", "normalTpsl"}}
    \cup {[type |-> "cancel", list |-> "cancels",
            fields |-> [a |-> "int", o |-> "int"], grouping |-> ""],
           [type |-> "updateLeverage", list |-> "",
            fields |-> [asset |-> "int", isCross |-> "bool", leverage |-> "int"],
            grouping |-> ""]}

\* the operation called last has POSTed its action
HasPosted == ~call.dry_run /\ call.pc = "done" /\ call.posted > 0

\* C32 for every operation but cancel-all
C32_OrderCancelLeverageActions ==
    /\ HasPosted /\ call.op # "cancel_all" => action(call.op) \in WireActions
    /\ ~call.dry_run /\ call.lev_result # "" => action("update_leverage") \in WireActions

\* C32: every action signed and POSTed to the exchange is one of the actions
\* order, cancel or updateLeverage with exactly the listed field names, for
\* every operation of the executor, cancel-all included.
C32_WireExactActions ==
    /\ HasPosted => action(call.op) \in WireActions
    /\ ~call.dry_run /\ call.lev_result # "" => action("update_leverage") \in WireActions

\* --------------------------------------------- properties of the formatters
RECURSIVE DigitsValue(_)
\* the integer a string of digits denotes (0 for the empty string)
DigitsValue(str) ==
    IF str = <<>> THEN 0
    ELSE 10 * DigitsValue(SubSeq(str, 1, Len(str) - 1))
            + (CHOOSE k \in 0..9 : DigitChars[k + 1] = str[Len(str)])

\* what a string that is no decimal number parses to
ParseError == [n |-> 0, d |-> 0]

\* the number a plain decimal string denotes: digits, at most one point, at
\* least one digit
ParseDecimal(str) ==
    LET points == {i \in DOMAIN str : str[i] = "."}
        digits == {i \in DOMAIN str : \E k \in 1..10 : DigitChars[k] = str[i]}
    IN  IF digits = {} \/ Cardinality(points) > 1 \/ points \cup digits # DOMAIN str
        THEN ParseError
        ELSE LET p    == IF points = {} THEN Len(str) + 1 ELSE CHOOSE i \in points : TRUE
                 ip   == SubSeq(str, 1, p - 1)
                 frac == SubSeq(str, p + 1, Len(str))
             IN  Rat(DigitsValue(ip) * Pow10(Len(frac)) + DigitsValue(frac),
                     Pow10(Len(frac)))

\* _format_size has returned the string of a size
SizeFormatted == fmt.pc = "returned" /\ fmt.fn = "format_size"

\* round(s, d)
RoundedTo(s, d) == Rat(RoundHalfEven(s.n * Pow10(d), s.d), Pow10(d))

\* C33 for assets with at least one size decimal
C33_RoundTripWithDecimals ==
    SizeFormatted /\ fmt.decimals > 0
        => ParseDecimal(fmt.out) = RoundedTo(fmt.x, fmt.decimals)

\* C33: for all sizes 0 <= s <= 10^6 and decimals 0 <= d <= 8, parsing the
\* string _format_size(s, d) returns yields round(s, d), for d = 0 and
\* multiples of 10 too.
C33_SizeRoundTrip ==
    SizeFormatted => ParseDecimal(fmt.out) = RoundedTo(fmt.x, fmt.decimals)

\* a price string of an order action has been written
PriceFormatted == fmt.pc = "returned" /\ fmt.fn \in {c.fn : c \in FormatPriceCalls}

RECURSIVE lstrip(_, _)
lstrip(str, ch) ==
    IF str # <<>> /\ str[1] = ch THEN lstrip(Tail(str), ch) ELSE str

\* the number of significant figures of a plain decimal string: its digits
\* from the first to the last that is not 0
SignificantFigures(str) ==
    Len(rstrip(lstrip(SelectSeq(str, LAMBDA c : c # "."), "0"), "0"))

\* a plain decimal of at most 5 significant figures without trailing zeros
\* after the point
WirePrice(str) ==
    /\ ParseDecimal(str) # ParseError
    /\ SignificantFigures(str) <= 5
    /\ StripFraction(str) = str

\* the prices that go through f"{x:.5g}"
FiveFigureFormatted ==
    PriceFormatted
      /\ (fmt.fn \in {"market_p", "trigger_px"} \/ (fmt.fn = "trigger_p" /\ fmt.is_market))

\* C34 for the prices formatted with .5g that stay below 100000
C34_SmallPricesFiveFigures ==
    FiveFigureFormatted /\ ~(\E i \in DOMAIN fmt.out : fmt.out[i] = "e")
        => WirePrice(fmt.out)

\* C34: every price on the wire (market slippage price, limit order price,
\* trigger price, trigger limit price) is rounded to at most 5 significant
\* figures and written as a plain decimal without trailing zeros.
C34_PricesFiveFigures ==
    PriceFormatted => WirePrice(fmt.out)

\* ------------------------------------------ properties of the construction
\* the constructor has returned or raised
Constructed == call.pc # "new"

\* the key given is not the key of the configured follower address
KeyMismatch ==
    /\ call.private_key # ""
    /\ (from_key(call.private_key) = "raised"
          \/ lower(from_key(call.private_key)) # lower(call.wallet_address))

\* C35: auth errors are fatal at construction: in live mode without a private
\* key, or with a key whose address is not the configured follower address,
\* the constructor raises and there is no executor able to sign (no account,
\* nothing ever signed); in dry-run mode no key is needed and nothing raises,
\* and an executor that signs has the account of the follower address.
C35_AuthFatalAtConstruction ==
    Constructed
        => /\ ~call.dry_run /\ (call.private_key = "" \/ KeyMismatch)
                => call.pc = "raised" /\ call.account = "None" /\ call.signed = 0
           /\ call.dry_run => call.pc # "raised" /\ call.signed = 0
           /\ call.signed > 0 => lower(call.account) = lower(call.wallet_address)

\* C35: the constructor has raised in live mode for a key of another account
C35_Witness ==
    /\ ~call.dry_run
    /\ call.private_key = "0xother"
    /\ call.wallet_address = "0xabcd"
    /\ call.pc = "raised"

\* ------------------------------------- properties of opens, closes and fills
\* the frame being handled carries exactly one fill, an Open fill of the symbol
SingleOpenFillOf(sym) ==
    /\ frame.hasF
    /\ Len(frame.fills) = 1
    /\ frame.fills[1].coin = sym
    /\ IsOpen(frame.fills[1].dir)

\* C36: one target open that reaches the monitor as an Open fill and as a new
\* position record results in at most one follower open: when the open copied
\* from the position record is submitted, no order for the symbol has been
\* submitted for the frame's fill.
C36_SingleOpenPerTargetOpen ==
    IsSub /\ obs.origin = "newpos" /\ SingleOpenFillOf(obs.sym) => obs.prevEv = 0

\* the fill closes the target's whole position: size = |startPosition|
FullClose(fill) == IsClose(fill.dir) /\ fill.sz = Abs(fill.startPosition)

\* the half of C37 about the order that is submitted: it is reduce-only and
\* for the whole of the follower's position
C37_FullCloseSize ==
    IsSub /\ obs.origin = "fill" /\ FullClose(obs.d) /\ obs.folBefore > 0
        => obs.reduce_only /\ obs.wire = obs.folBefore

\* C37: when the bot is not paused, a Close fill for the target's whole
\* position, the follower holding a position of the symbol, always results in
\* a reduce-only submission for the follower's entire position, whatever its
\* notional: the callback never returns without having submitted it (unless
\* the query of the follower's positions or the POST itself has failed).
C37_FullCloseSubmitted ==
    /\ C37_FullCloseSize
    /\ ~ (/\ obs.type = "done"
           /\ obs.origin = "fill"
           /\ FullClose(obs.d)
           /\ obs.folHeld > 0
           /\ ~obs.paused
           /\ obs.reason \notin {"nothing_to_close", "netfail"})

\* an order copied from a fill has been submitted
FillCopied == IsSub /\ obs.origin = "fill"

\* the side that closes a position of the fill's side: SELL for Long, BUY for Short
ClosingSide(dir) == IF HasLong(dir) THEN "SELL" ELSE "BUY"

\* C38 for the fills whose direction is Open Long, Open Short, Close Long or
\* Close Short
C38_OpenCloseDirections ==
    FillCopied /\ (IsOpen(obs.d.dir) \/ IsClose(obs.d.dir))
        => (obs.reduce_only <=> obs.side = ClosingSide(obs.d.dir))

\* C38: whatever direction string the stream delivers, an order copied from a
\* fill is reduce-only if and only if its side is the closing side of the
\* fill's position side (SELL for Long, BUY for Short).
C38_ReduceOnlyIffClosingSide ==
    FillCopied => (obs.reduce_only <=> obs.side = ClosingSide(obs.d.dir))

\* C39: a failed snapshot refresh (get_user_state returns None) leaves
\* current_state, last_positions and last_orders as they were: every step
\* either keeps current_state or replaces it by a fetched snapshot, and a
\* step that ends without a snapshot changes neither last_positions nor
\* last_orders.
C39_FailedRefreshKeepsState ==
    [][/\ current_state' = current_state \/ current_state'.some
       /\ ~current_state'.some => UNCHANGED <<last_positions, last_orders>>]_vars


\* the fills of the frame that _handle_fills hands to the callback
FillsDispatched ==
    Cardinality({j \in 1..Len(frame.fills) : frame.fills[j].coin \notin blocked_assets})

\* the first k position records of the frame that _handle_positions hands
\* to a callback
PositionsDispatched(k) ==
    Cardinality({j \in 1..k : /\ frame.positions[j].coin \notin blocked_assets
                              /\ PositionEvent(frame.positions[j]) # ""})

\* the callback of a position record has raised
CallbackRaised ==
    obs.type = "done" /\ obs.origin = "posclose" /\ obs.reason = "exception"

\* C40: an exception raised by the callback of one item does not keep the
\* remaining items of the frame, or the items of a later frame, from being
\* dispatched: when a callback has raised, _handle_positions is still in its
\* loop, and whenever the loop has passed k records of a frame, first or
\* later, every fill and every one of the k records that calls for a callback
\* has been dispatched, whatever the callbacks before it did.
C40_CallbackErrorsDoNotStopDispatch ==
    /\ CallbackRaised => monPc.phase = "positions"
    /\ monPc.phase = "positions" /\ tasks = <<>>
          => evCount - frame.ev0
                = (IF frame.redelivery THEN 0 ELSE FillsDispatched)
                  + PositionsDispatched(monPc.i - 1)

\* C40 witness: in a frame that is delivered after a frame in which the
\* close callback raised, the close callback has raised again on the first
\* record and the record after it has been dispatched all the same
C40_Witness ==
    /\ frame.redelivery
    /\ Len(frame.positions) = 2
    /\ frame.positions[1].szi = 0
    /\ monPc = [phase |-> "positions", i |-> 3]
    /\ tasks = <<>>
    /\ evCount - frame.ev0 = 2

====
